---- MODULE Spec2Model ----
(***************************************************************************)
(* A model of the Alconna command parser's result object (Arparma), its    *)
(* behaviour pipeline and the compile step of its analyser.                *)
(*                                                                         *)
(*   SpecQuery    Arparma.encapsulate_result and Arparma.query             *)
(*   SpecExecute  Arparma.execute over requirement_handler                 *)
(*   SpecCompile  compile / default_params_parser / _compile_opts          *)
(*   SpecCall     Arparma.call                                             *)
(*                                                                         *)
(* Every specification ranges over all the variables; the ones it does not *)
(* use keep the value Init gave them.                                      *)
(***************************************************************************)
EXTENDS Integers, Sequences, FiniteSets, TLC

VARIABLES
    \* ---- Arparma (arparma.py:23-37)
    phase,          \* "new" | "encapsulated" | "queried"
    main_args,      \* dict name -> value
    other_args,     \* dict name -> value
    options,        \* ordered dict: sequence of [name, value, args]
    subcommands,    \* ordered dict: sequence of [name, value, args, options]
    qpath,          \* the path of the last query, split on '.'
    qres,           \* what the last query returned or raised
    \* ---- Arparma.execute (arparma.py:104-125, behavior.py:30-38)
    requires,       \* behaviour -> its `requires` list
    src_behaviors,  \* self.source.behaviors
    arp,            \* [source, origin, matched] of the Arparma executed
    epc,            \* "idle" | "running" | "returned" | "raised"
    elist,          \* source.behaviors[1:] + behaviors, the list of line 105
    exc_behaviors,  \* the flattened list execute walks: [b, own], own marking
                    \* the entry of a listed behaviour itself
    oplog,          \* the entries whose operate was called, in call order
    ecancel,        \* position in oplog of the first BehaveCancelled, 0 if none
    eres,           \* the Arparma execute returned
    \* ---- compile (analysis/base.py:17-59)
    cmd_options,    \* alconna.options: the declared nodes, in declaration order
    need_main_args, \* analyser.need_main_args
    cpc,            \* "declared" | "compiled" | "recompiled"
    command_params, \* analyser.command_params: alias -> entry
    param_ids,      \* analyser.param_ids
    part_len,       \* analyser.part_len: [assigned, stop]
    default_separate, \* analyser.default_separate
    sub_params,     \* per top-level node: the Subcommand object's sub_params
    sub_part_len,   \* per top-level node: the Subcommand's sub_part_len
    \* ---- Arparma.call (arparma.py:118-122)
    kpc,            \* "idle" | "returned" | "raised"
    target,         \* the parameter names of the callable given to call
    additional,     \* the extra keyword arguments given to call
    calls,          \* the keyword dicts the target was invoked with, in order
    \* ---- _from_string (builtin/construct.py:301-356)
    opt_form,       \* how the option string was written: [names, pieces]
    opt,            \* the option string, a sequence of characters
    spc,            \* "given" | "built" | "skipped"
    built_options,  \* _options: the Option objects appended
    \* ---- AlconnaDecorate (builtin/construct.py:95-212)
    building,       \* self.building
    storage,        \* self.__storage: [options, main_args, func]
    wrappers,       \* the wrappers handed out by build_command, option, arguments
    events,         \* the calls made on the decorator so far, with their outcome
    built,          \* the ALCCommands the build wrapper returned so far
    \* ---- the CLI main (commandline.py:10, 239-266)
    cache_file,     \* alconna_cache.json: NoFile or the dict stored
    cache_data,     \* the module's global cache_data
    runs,           \* the invocations of main so far: [args, before, used, reported]
    \* ---- OutputActionManager (components/output.py:24-80)
    mcache,         \* self.cache: command -> the action waiting for its output
    outputs,        \* self.outputs: command -> OutputAction [action, generator, cache]
    send_action,    \* self.send_action
    capturing,      \* the `with capture(command)` block running: [active, command]
    last_op,        \* the last call: [op, command, generator, exc, before]
    \* ---- Commands (commander/commander.py)
    executors,      \* self.executors in insertion order: [alc, func, block]
    bcast,          \* the broadcast made since the last on: [done, executors, matching, parsed, executed, data]
    \* ---- AlconnaNodeVisitor (components/visitor.py)
    alconna,        \* the command visited: [name, options]
    vpc,            \* "new", "built", or "failed" when __init__ raised
    name_list,      \* self.name_list
    node_map,       \* self.node_map: node id -> [node_id, type, name, sub_nodes]
    vres,           \* the last require: [done, path, exc, node]
    \* ---- AlconnaMounter (builtin/construct.py:362-399, 599-630)
    mounter,        \* the mounter _from_object made: [kind, command]
    mparse          \* the last parse on it: [done, message, parsed, returned]

varsQ == <<phase, main_args, other_args, options, subcommands, qpath, qres>>

varsE ==
    <<requires, src_behaviors, arp, epc, elist, exc_behaviors, oplog, ecancel, eres>>

varsC ==
    <<cmd_options, need_main_args, cpc, command_params, param_ids, part_len,
      default_separate, sub_params, sub_part_len>>

varsK == <<kpc, target, additional, calls>>

varsB == <<opt_form, opt, spc, built_options>>

varsD == <<building, storage, wrappers, events, built>>

varsL == <<cache_file, cache_data, runs>>

varsO == <<mcache, outputs, send_action, capturing, last_op>>

varsM == <<executors, bcast>>

varsV == <<alconna, vpc, name_list, node_map, vres>>

varsT == <<mounter, mparse>>

varsX == <<varsL, varsO, varsM, varsV, varsT>>

vars == <<varsQ, varsE, varsC, varsK, varsB, varsD, varsX>>

(***************************************************************************)
(* Bounds and universes                                                    *)
(***************************************************************************)
MaxVal == 2

Values == 1..MaxVal

\* names of arguments, options and subcommands; they overlap on purpose
ArgNames == {"foo", "bar"}
OptNames == {"foo", "options"}
SubNames == {"foo", "bar"}
SubOptNames == {"foo", "bar"}

\* the value an OptionResult / SubcommandResult carries besides its args
NoValue == "None"

(***************************************************************************)
(* Dicts.  An args dict is a function from a set of names to values; the   *)
(* dicts of option and subcommand results keep Python's insertion order,   *)
(* which encapsulate_result iterates, as a sequence of named records.      *)
(***************************************************************************)
EmptyDict == [k \in {} |-> 0]

\* {**a, **b}
Merge(a, b) ==
    [k \in (DOMAIN a) \cup (DOMAIN b) |-> IF k \in DOMAIN b THEN b[k] ELSE a[k]]

Keys(od) == {od[i].name : i \in DOMAIN od}

HasKey(od, k) == k \in Keys(od)

Entry(od, k) == od[CHOOSE i \in DOMAIN od : od[i].name = k]

\* the main args dict: any subset of the names
MainArgDicts == UNION {[S -> Values] : S \in SUBSET ArgNames}

\* the args dict of one option or subcommand result: at most one argument
ArgDicts ==
    UNION {[S -> Values] : S \in {T \in SUBSET ArgNames : Cardinality(T) <= 1}}

OptionResults(names) ==
    {[name |-> n, value |-> NoValue, args |-> a] : n \in names, a \in ArgDicts}

OptionDicts(names) == {<<>>} \cup {<<o>> : o \in OptionResults(names)}

SubcommandResults ==
    {[name |-> n, value |-> NoValue, args |-> a, options |-> os] :
        n \in SubNames, a \in ArgDicts, os \in OptionDicts(SubOptNames)}

SubcommandDicts == {<<>>} \cup {<<s>> : s \in SubcommandResults}

(***************************************************************************)
(* Arparma.encapsulate_result                                              *)
(***************************************************************************)
\* for v in options.values(): other_args = {**other_args, **v.args}
RECURSIVE FoldOptionArgs(_, _)
FoldOptionArgs(acc, opts) ==
    IF opts = <<>> THEN acc
    ELSE FoldOptionArgs(Merge(acc, Head(opts).args), Tail(opts))

\* the args of the options of every subcommand
RECURSIVE FoldNestedOptionArgs(_, _)
FoldNestedOptionArgs(acc, subs) ==
    IF subs = <<>> THEN acc
    ELSE FoldNestedOptionArgs(FoldOptionArgs(acc, Head(subs).options), Tail(subs))

\* faulty variant: the args of all subcommands first, then all nested options
FoldSubcommandArgs_OptionsLast(acc, subs) ==
    FoldNestedOptionArgs(FoldOptionArgs(acc, subs), subs)

\* for k in subcommands: the subcommand's args, then those of its options
RECURSIVE FoldSubcommandArgs(_, _)
FoldSubcommandArgs(acc, subs) ==
    IF subs = <<>> THEN acc
    ELSE FoldSubcommandArgs(
            FoldOptionArgs(Merge(acc, Head(subs).args), Head(subs).options),
            Tail(subs))

EncapsulateOther(old, opts, subs) ==
    FoldSubcommandArgs(FoldOptionArgs(old, opts), subs)

NoResult == [kind |-> "none", exc |-> "", at |-> <<>>, key |-> ""]

\* The analyser fills a freshly created Arparma once.
encapsulate_result(m, opts, subs) ==
    /\ phase = "new"
    /\ main_args' = m
    /\ options' = opts
    /\ subcommands' = subs
    /\ other_args' = EncapsulateOther(other_args, opts, subs)
    /\ phase' = "encapsulated"
    /\ UNCHANGED <<qpath, qres>>

(***************************************************************************)
(* Arparma.__require__ : (source, endpoint) for a split path.  A source is *)
(* named by where it lives in the Arparma: <<"options">> is the options    *)
(* dict, <<"options", o>> the OptionResult o, <<"options", o, "args">> its *)
(* args dict, and so on below <<"subcommands", s>>.  None is <<>>.         *)
(***************************************************************************)
None == <<>>

\* the walrus of line 148 binds the comparison, so _end is a bool
PyTrue == "<True>"
PyFalse == "<False>"

Ret(src, end) == [exc |-> "", source |-> src, endpoint |-> end]

Ambiguous(word) == [exc |-> "ambiguous", source |-> None, endpoint |-> word]

components == Keys(options) \cup Keys(subcommands)

all_matched_args == Merge(main_args, other_args)

\* faulty variant: a name that is no key of _opts gives the whole mapping
HandleOpt_AbsentGivesMapping(pf0, parts0, at, opts) ==
    LET pf == IF pf0 = "options" THEN Head(parts0) ELSE pf0
        parts == IF pf0 = "options" THEN Tail(parts0) ELSE parts0
    IN  IF parts = <<>> THEN Ret(at, IF HasKey(opts, pf) THEN pf ELSE "")
        ELSE IF ~HasKey(opts, pf) THEN Ret(at, pf)
        ELSE LET end == IF Head(parts) = "value" THEN PyTrue ELSE PyFalse
                 rest == Tail(parts)
             IN  IF end = PyTrue THEN Ret(at \o <<pf>>, end)
                 ELSE IF end = "args"
                 THEN (IF rest # <<>> THEN Ret(at \o <<pf, "args">>, Head(rest))
                       ELSE Ret(at \o <<pf>>, end))
                 ELSE Ret(at \o <<pf, "args">>, end)

\* _handle_opt(_pf, _parts, _opts); at names _opts
HandleOpt(pf0, parts0, at, opts) ==
    LET pf == IF pf0 = "options" THEN Head(parts0) ELSE pf0
        parts == IF pf0 = "options" THEN Tail(parts0) ELSE parts0
    IN  IF parts = <<>> THEN Ret(at, pf)
        ELSE IF ~HasKey(opts, pf) THEN Ret(at, pf)
        ELSE LET end == IF Head(parts) = "value" THEN PyTrue ELSE PyFalse
                 rest == Tail(parts)
             IN  IF end = PyTrue THEN Ret(at \o <<pf>>, end)
                 ELSE IF end = "args"
                 THEN (IF rest # <<>> THEN Ret(at \o <<pf, "args">>, Head(rest))
                       ELSE Ret(at \o <<pf>>, end))
                 ELSE Ret(at \o <<pf, "args">>, end)

\* faulty variant: an argument of the subcommand is found before its options
RequireSubcommand_ArgsFirst(prefix0, parts0) ==
    LET prefix == IF prefix0 = "subcommands" THEN Head(parts0) ELSE prefix0
        parts == IF prefix0 = "subcommands" THEN Tail(parts0) ELSE parts0
    IN  IF parts = <<>> THEN Ret(<<"subcommands">>, prefix)
        ELSE IF ~HasKey(subcommands, prefix) THEN Ret(<<"subcommands">>, prefix)
        ELSE LET src == Entry(subcommands, prefix)
                 at == <<"subcommands", prefix>>
                 end == Head(parts)
                 rest == Tail(parts)
             IN  IF end = "value" THEN Ret(at, end)
                 ELSE IF end = "args"
                 THEN (IF rest # <<>> THEN Ret(at \o <<"args">>, Head(rest))
                       ELSE Ret(at, end))
                 ELSE IF end \in DOMAIN src.args
                 THEN Ret(at \o <<"args">>, end)
                 ELSE IF end = "options" /\ (HasKey(src.options, end) \/ rest = <<>>)
                 THEN Ambiguous(prefix)
                 ELSE IF end = "options" \/ HasKey(src.options, end)
                 THEN HandleOpt(end, rest, at \o <<"options">>, src.options)
                 ELSE Ret(at \o <<"args">>, end)

RequireSubcommand(prefix0, parts0) ==
    LET prefix == IF prefix0 = "subcommands" THEN Head(parts0) ELSE prefix0
        parts == IF prefix0 = "subcommands" THEN Tail(parts0) ELSE parts0
    IN  IF parts = <<>> THEN Ret(<<"subcommands">>, prefix)
        ELSE IF ~HasKey(subcommands, prefix) THEN Ret(<<"subcommands">>, prefix)
        ELSE LET src == Entry(subcommands, prefix)
                 at == <<"subcommands", prefix>>
                 end == Head(parts)
                 rest == Tail(parts)
             IN  IF end = "value" THEN Ret(at, end)
                 ELSE IF end = "args"
                 THEN (IF rest # <<>> THEN Ret(at \o <<"args">>, Head(rest))
                       ELSE Ret(at, end))
                 ELSE IF end = "options" /\ (HasKey(src.options, end) \/ rest = <<>>)
                 THEN Ambiguous(prefix)
                 ELSE IF end = "options" \/ HasKey(src.options, end)
                 THEN HandleOpt(end, rest, at \o <<"options">>, src.options)
                 ELSE Ret(at \o <<"args">>, end)

\* faulty variant: subcommands are searched before options
RequireOne_SubcommandsFirst(part) ==
    IF part \in DOMAIN main_args THEN Ret(<<"main_args">>, part)
    ELSE IF part \in DOMAIN other_args THEN Ret(<<"other_args">>, part)
    ELSE IF HasKey(subcommands, part) THEN Ret(<<"subcommands">>, part)
    ELSE IF HasKey(options, part) THEN Ret(<<"options">>, part)
    ELSE IF part \in {"options", "subcommands", "main_args", "other_args"}
    THEN Ret(<<part>>, "")
    ELSE IF part = "args" THEN Ret(<<"all_matched_args">>, "")
    ELSE Ret(None, part)

\* faulty variant: a name held by an option and by a subcommand is ambiguous
RequireOne_AmbiguousComponents(part) ==
    IF part \in DOMAIN main_args THEN Ret(<<"main_args">>, part)
    ELSE IF part \in DOMAIN other_args THEN Ret(<<"other_args">>, part)
    ELSE IF HasKey(options, part) /\ HasKey(subcommands, part) THEN Ambiguous(part)
    ELSE IF HasKey(options, part) THEN Ret(<<"options">>, part)
    ELSE IF HasKey(subcommands, part) THEN Ret(<<"subcommands">>, part)
    ELSE IF part \in {"options", "subcommands", "main_args", "other_args"}
    THEN Ret(<<part>>, "")
    ELSE IF part = "args" THEN Ret(<<"all_matched_args">>, "")
    ELSE Ret(None, part)

RequireOne(part) ==
    IF part \in DOMAIN main_args THEN Ret(<<"main_args">>, part)
    ELSE IF part \in DOMAIN other_args THEN Ret(<<"other_args">>, part)
    ELSE IF HasKey(options, part) THEN Ret(<<"options">>, part)
    ELSE IF HasKey(subcommands, part) THEN Ret(<<"subcommands">>, part)
    ELSE IF part \in {"options", "subcommands", "main_args", "other_args"}
    THEN Ret(<<part>>, "")
    ELSE IF part = "args" THEN Ret(<<"all_matched_args">>, "")
    ELSE Ret(None, part)

\* prefix.replace("$main", "main_args").replace("$other", "other_args")
ReplaceDollar(prefix) ==
    IF prefix = "$main" THEN "main_args"
    ELSE IF prefix = "$other" THEN "other_args"
    ELSE prefix

Require(parts) ==
    IF Len(parts) = 1 THEN RequireOne(parts[1])
    ELSE LET prefix == Head(parts)
             rest == Tail(parts)
         IN  IF prefix \in {"options", "subcommands"} /\ prefix \in components
             THEN Ambiguous(prefix)
             ELSE IF prefix = "options" \/ HasKey(options, prefix)
             THEN HandleOpt(prefix, rest, <<"options">>, options)
             ELSE IF prefix = "subcommands" \/ HasKey(subcommands, prefix)
             THEN RequireSubcommand(prefix, rest)
             ELSE IF ReplaceDollar(prefix) \in {"main_args", "other_args"}
             THEN Ret(<<ReplaceDollar(prefix)>>, Head(rest))
             ELSE Ret(None, ReplaceDollar(prefix))

(***************************************************************************)
(* Arparma.query.  The result names the entry it returns: "entry" is       *)
(* source[endpoint], "mapping" the whole source, "default" the default     *)
(* given by the caller, "raise" an exception leaving query.                *)
(***************************************************************************)
\* the keys of the dict a source names
KeysAt(src) ==
    IF src = <<"main_args">> THEN DOMAIN main_args
    ELSE IF src = <<"other_args">> THEN DOMAIN other_args
    ELSE IF src = <<"all_matched_args">> THEN DOMAIN all_matched_args
    ELSE IF src = <<"options">> THEN Keys(options)
    ELSE IF src = <<"subcommands">> THEN Keys(subcommands)
    ELSE IF Len(src) = 3 /\ src[1] = "options"
    THEN DOMAIN Entry(options, src[2]).args
    ELSE IF Len(src) = 3 /\ src[3] = "args"
    THEN DOMAIN Entry(subcommands, src[2]).args
    ELSE IF Len(src) = 3
    THEN Keys(Entry(subcommands, src[2]).options)
    ELSE DOMAIN Entry(Entry(subcommands, src[2]).options, src[4]).args

\* an OptionResult or SubcommandResult, not a dict
IsResultObject(src) ==
    \/ Len(src) = 2
    \/ Len(src) = 4

Truthy(endpoint) == endpoint \notin {"", PyFalse}

Query(path) ==
    LET r == Require(path)
    IN  IF r.exc # ""
        THEN [kind |-> "raise", exc |-> r.exc, at |-> <<>>, key |-> r.endpoint]
        ELSE IF r.source = None
        THEN [kind |-> "default", exc |-> "", at |-> <<>>, key |-> ""]
        ELSE IF ~Truthy(r.endpoint)
        THEN [kind |-> "mapping", exc |-> "", at |-> r.source, key |-> ""]
        ELSE IF IsResultObject(r.source)
        THEN [kind |-> "attribute", exc |-> "", at |-> r.source, key |-> r.endpoint]
        ELSE IF r.endpoint \in KeysAt(r.source)
        THEN [kind |-> "entry", exc |-> "", at |-> r.source, key |-> r.endpoint]
        ELSE [kind |-> "default", exc |-> "", at |-> <<>>, key |-> ""]

ReservedWords == {"options", "subcommands", "main_args", "other_args", "args"}

PathNames == {"foo", "bar"}

Paths ==
    {<<p>> : p \in PathNames \cup ReservedWords \cup {"baz"}}
    \cup {<<h, n>> : h \in {"options", "subcommands", "foo", "bar", "$main", "$other"},
                     n \in PathNames}
    \cup {<<h, n, e>> : h \in {"options", "subcommands"}, n \in PathNames,
                        e \in {"value", "args", "foo", "options"}}
    \cup {<<"subcommands", n, "options", "foo">> : n \in PathNames}
    \cup {<<"options", n, "args", "foo">> : n \in PathNames}

\* query only reads the Arparma: a second query of the same result would start
\* from the same dicts, so one query per encapsulated result covers them all
query(path) ==
    /\ phase = "encapsulated"
    /\ qpath' = path
    /\ qres' = Query(path)
    /\ phase' = "queried"
    /\ UNCHANGED <<main_args, other_args, options, subcommands>>

InitQVars ==
    /\ phase = "new"
    /\ main_args = EmptyDict
    /\ other_args = EmptyDict
    /\ options = <<>>
    /\ subcommands = <<>>
    /\ qpath = <<>>
    /\ qres = NoResult

Encapsulate ==
    /\ phase = "new"
    /\ \E m \in MainArgDicts, opts \in OptionDicts(OptNames), subs \in SubcommandDicts :
          encapsulate_result(m, opts, subs)

QueryPath ==
    /\ phase = "encapsulated"
    /\ \E path \in Paths : query(path)

NextQuery ==
    \/ Encapsulate /\ UNCHANGED <<varsE, varsC, varsK, varsB, varsD, varsX>>
    \/ QueryPath /\ UNCHANGED <<varsE, varsC, varsK, varsB, varsD, varsX>>

(***************************************************************************)
(* Behaviours, requirement_handler and Arparma.execute                     *)
(***************************************************************************)
MaxBehaviors == 2
MaxRequires == 2

Behaviors == {"b1", "b2", "b3"}

\* an element of a `requires` list that is no ArparmaBehavior (line 35 skips it)
NotABehavior == "junk"

BehaviorIndex(b) == IF b = "b1" THEN 1 ELSE IF b = "b2" THEN 2 ELSE 3

\* what a behaviour's `requires` may name: requirement_handler recurses into it,
\* so the lists are acyclic (a cycle is a RecursionError before any operate)
RequireItems(b) ==
    {r \in Behaviors : BehaviorIndex(r) < BehaviorIndex(b)}
        \cup (IF b = "b3" THEN {NotABehavior} ELSE {})

SeqsUpTo(S, n) == UNION {[1..k -> S] : k \in 0..n}

NoRepeat(q) == \A i, j \in DOMAIN q : q[i] = q[j] => i = j

RequiresLists(b) == {q \in SeqsUpTo(RequireItems(b), MaxRequires) : NoRepeat(q)}

\* the behaviours passed to execute
BehaviorLists == SeqsUpTo(Behaviors, MaxBehaviors)

\* the behaviours registered on the source command
SourceBehaviorLists == SeqsUpTo(Behaviors, 2)

\* requirement_handler(behavior): the flattened requirements, then the behaviour.
\* The lru_cache in front of it returns, for a behaviour whose requires do not
\* change, the list this computes.
RECURSIVE requirement_handler(_)
RECURSIVE HandleRequires(_)
\* faulty variant: the behaviour is appended before its requirements
requirement_handler_SelfFirst(behavior) ==
    <<behavior>> \o HandleRequires(requires[behavior])

HandleRequires(unbound_mixin) ==
    IF unbound_mixin = <<>> THEN <<>>
    ELSE (IF Head(unbound_mixin) \in Behaviors
          THEN requirement_handler(Head(unbound_mixin))
          ELSE <<>>) \o HandleRequires(Tail(unbound_mixin))

requirement_handler(behavior) ==
    HandleRequires(requires[behavior]) \o <<behavior>>

\* for behavior in behaviors: exc_behaviors.extend(requirement_handler(behavior))
Tagged(flat) == [i \in DOMAIN flat |-> [b |-> flat[i], own |-> i = Len(flat)]]

RECURSIVE ExtendAll(_)
ExtendAll(behaviors) ==
    IF behaviors = <<>> THEN <<>>
    ELSE Tagged(requirement_handler(Head(behaviors))) \o ExtendAll(Tail(behaviors))

\* self.source.behaviors[1:] + (behaviors or [])
ExecuteList(behaviors) ==
    (IF src_behaviors = <<>> THEN <<>> ELSE Tail(src_behaviors)) \o behaviors

NoArparma ==
    [kind |-> "none", source |-> "", origin |-> "", matched |-> FALSE,
     error_info |-> <<>>]

\* return self
Self ==
    [kind |-> "self", source |-> arp.source, origin |-> arp.origin,
     matched |-> arp.matched, error_info |-> <<>>]

\* faulty variant: the failed result is built without the origin
Fail_NoOrigin(exc) ==
    [kind |-> "failed", source |-> arp.source, origin |-> "",
     matched |-> FALSE, error_info |-> exc]

\* Arparma._fail(exc)
Fail(exc) ==
    [kind |-> "failed", source |-> arp.source, origin |-> arp.origin,
     matched |-> FALSE, error_info |-> exc]

\* the OutBoundsBehave instance raised by the operate call at position pos
OutBoundsBehave(pos) == <<"OutBoundsBehave", pos>>

\* execute(behaviors) up to its first operate call
ExecuteBegin(behaviors) ==
    /\ epc = "idle"
    /\ elist' = ExecuteList(behaviors)
    /\ exc_behaviors' = ExtendAll(ExecuteList(behaviors))
    /\ IF ExecuteList(behaviors) = <<>>
       THEN epc' = "returned" /\ eres' = Self
       ELSE epc' = "running" /\ eres' = eres
    /\ UNCHANGED <<requires, src_behaviors, arp, oplog, ecancel>>

\* faulty variant: BehaveCancelled ends the loop like a break
Operate_CancelBreaks(outcome) ==
    /\ epc = "running"
    /\ Len(oplog) < Len(exc_behaviors)
    /\ oplog' = Append(oplog, exc_behaviors[Len(oplog) + 1])
    /\ ecancel' = IF outcome = "BehaveCancelled" /\ ecancel = 0
                  THEN Len(oplog) + 1 ELSE ecancel
    /\ IF outcome = "OutBoundsBehave"
       THEN epc' = "returned" /\ eres' = Fail(OutBoundsBehave(Len(oplog) + 1))
       ELSE IF outcome = "Exception"
       THEN epc' = "raised" /\ eres' = eres
       ELSE IF outcome = "BehaveCancelled"
       THEN epc' = "returned" /\ eres' = Self
       ELSE epc' = epc /\ eres' = eres
    /\ UNCHANGED <<requires, src_behaviors, arp, elist, exc_behaviors>>

\* b.operate(self) returns, or raises BehaveCancelled, OutBoundsBehave or
\* something else
Operate(outcome) ==
    /\ epc = "running"
    /\ Len(oplog) < Len(exc_behaviors)
    /\ oplog' = Append(oplog, exc_behaviors[Len(oplog) + 1])
    /\ ecancel' = IF outcome = "BehaveCancelled" /\ ecancel = 0
                  THEN Len(oplog) + 1 ELSE ecancel
    /\ IF outcome = "OutBoundsBehave"
       THEN epc' = "returned" /\ eres' = Fail(OutBoundsBehave(Len(oplog) + 1))
       ELSE IF outcome = "Exception"
       THEN epc' = "raised" /\ eres' = eres
       ELSE epc' = epc /\ eres' = eres
    /\ UNCHANGED <<requires, src_behaviors, arp, elist, exc_behaviors>>

\* the loop is over: return self
ExecuteReturn ==
    /\ epc = "running"
    /\ Len(oplog) = Len(exc_behaviors)
    /\ epc' = "returned"
    /\ eres' = Self
    /\ UNCHANGED <<requires, src_behaviors, arp, elist, exc_behaviors, oplog, ecancel>>

Outcomes == {"return", "BehaveCancelled", "OutBoundsBehave", "Exception"}

Arparmas ==
    {[source |-> "cmd1", origin |-> "msg1", matched |-> m] : m \in BOOLEAN}
        \cup {[source |-> "cmd2", origin |-> "msg2", matched |-> m] : m \in BOOLEAN}

InitEVars ==
    /\ requires \in {f \in [Behaviors -> UNION {RequiresLists(b) : b \in Behaviors}] :
                        \A b \in Behaviors : f[b] \in RequiresLists(b)}
    /\ src_behaviors \in SourceBehaviorLists
    /\ arp \in Arparmas
    /\ epc = "idle"
    /\ elist = <<>>
    /\ exc_behaviors = <<>>
    /\ oplog = <<>>
    /\ ecancel = 0
    /\ eres = NoArparma

IdleEVars ==
    /\ requires = [b \in Behaviors |-> <<>>]
    /\ src_behaviors = <<>>
    /\ arp = [source |-> "cmd1", origin |-> "msg1", matched |-> FALSE]
    /\ epc = "idle"
    /\ elist = <<>>
    /\ exc_behaviors = <<>>
    /\ oplog = <<>>
    /\ ecancel = 0
    /\ eres = NoArparma

IdleQVars ==
    /\ phase = "new"
    /\ main_args = EmptyDict
    /\ other_args = EmptyDict
    /\ options = <<>>
    /\ subcommands = <<>>
    /\ qpath = <<>>
    /\ qres = NoResult

Execute ==
    /\ epc = "idle"
    /\ \E behaviors \in BehaviorLists : ExecuteBegin(behaviors)

OperateNext ==
    /\ epc = "running"
    /\ \E outcome \in Outcomes : Operate(outcome)

NextExecute ==
    \/ Execute /\ UNCHANGED <<varsQ, varsC, varsK, varsB, varsD, varsX>>
    \/ OperateNext /\ UNCHANGED <<varsQ, varsC, varsK, varsB, varsD, varsX>>
    \/ ExecuteReturn /\ UNCHANGED <<varsQ, varsC, varsK, varsB, varsD, varsX>>

(***************************************************************************)
(* compile: default_params_parser and _compile_opts                        *)
(*                                                                         *)
(* A node is referred to by its place in the declaration: top-level node i *)
(* of alconna.options, option j of a subcommand's options.  An entry of an *)
(* alias table is a list of option refs, a subcommand ref or a Sentence.   *)
(***************************************************************************)
MaxNodes == 2
MaxSubOpts == 2
MaxPrio == 1

Words == {"a", "b"}

Max(x, y) == IF x >= y THEN x ELSE y

OptionsEntry(refs) == [kind |-> "options", refs |-> refs, name |-> ""]
SubcommandEntry(i) == [kind |-> "subcommand", refs |-> <<i>>, name |-> ""]
Sentence(k) == [kind |-> "sentence", refs |-> <<>>, name |-> k]

EmptyTable == [k \in {} |-> Sentence("")]

Put(data, k, v) == [x \in DOMAIN data \cup {k} |-> IF x = k THEN v ELSE data[x]]

\* data.setdefault(k, v)
SetDefault(data, k, v) == IF k \in DOMAIN data THEN data ELSE Put(data, k, v)

\* li.sort(key=lambda x: x.priority, reverse=True): stable, so equal
\* priorities keep the order they had in the list
RECURSIVE InsertByPriority(_, _, _)
InsertByPriority(sorted, x, nodes) ==
    IF sorted = <<>> THEN <<x>>
    ELSE IF nodes[Head(sorted)].priority >= nodes[x].priority
    THEN <<Head(sorted)>> \o InsertByPriority(Tail(sorted), x, nodes)
    ELSE <<x>> \o sorted

RECURSIVE SortByPriority(_, _)
\* faulty variant: ties are reversed (sort ascending, then reverse the list)
SortByPriority_TiesReversed(li, nodes) ==
    LET RECURSIVE Ins(_, _)
        Ins(sorted, x) ==
            IF sorted = <<>> THEN <<x>>
            ELSE IF nodes[Head(sorted)].priority > nodes[x].priority
            THEN <<Head(sorted)>> \o Ins(Tail(sorted), x)
            ELSE <<x>> \o sorted
        RECURSIVE Go(_, _)
        Go(acc, rest) == IF rest = <<>> THEN acc ELSE Go(Ins(acc, Head(rest)), Tail(rest))
    IN  Go(<<>>, li)

SortByPriority(li, nodes) ==
    IF li = <<>> THEN <<>>
    ELSE InsertByPriority(SortByPriority(SubSeq(li, 1, Len(li) - 1), nodes),
                          li[Len(li)], nodes)

\* _compile_opts(option, data), option being nodes[ref]
CompileOpts(ref, nodes, data) ==
    LET aliases == nodes[ref].aliases
    IN  [alias \in DOMAIN data \cup aliases |->
            IF alias \notin aliases THEN data[alias]
            ELSE IF alias \in DOMAIN data /\ data[alias].kind = "options"
            THEN OptionsEntry(SortByPriority(Append(data[alias].refs, ref), nodes))
            ELSE OptionsEntry(<<ref>>)]

\* for k in requires: data.setdefault(k, Sentence(name=k))
RECURSIVE SetSentences(_, _)
SetSentences(data, reqs) ==
    IF reqs = <<>> THEN data
    ELSE SetSentences(SetDefault(data, Head(reqs), Sentence(Head(reqs))), Tail(reqs))

Range(q) == {q[i] : i \in DOMAIN q}

\* lines 36-42, for sub-option j of a subcommand: st is [sp, ids, rl]
RECURSIVE ParseSubOptions(_, _, _)
ParseSubOptions(st, sub_opts, j) ==
    IF j > Len(sub_opts) THEN st
    ELSE LET o == sub_opts[j]
             compiled == CompileOpts(j, sub_opts, st.sp)
         IN  ParseSubOptions(
                [sp |-> IF o.requires # <<>> THEN SetSentences(compiled, o.requires)
                        ELSE compiled,
                 ids |-> st.ids \cup o.aliases,
                 rl |-> IF o.requires # <<>> THEN Max(Len(o.requires), st.rl) ELSE st.rl],
                sub_opts, j + 1)

AnalyserSeparators == {" "}

\* the body of the loop of line 28 for top-level node i; st holds the analyser
\* fields, the nodes' sub_params and sub_part_len, and require_len
ParseNode(st, nodes, i) ==
    LET opts == nodes[i]
        sub == ParseSubOptions([sp |-> st.sp[i], ids |-> st.ids \cup {opts.name}, rl |-> 0],
                               opts.options, 1)
        cp1 == IF opts.kind = "option" THEN CompileOpts(i, nodes, st.cp)
               ELSE Put(st.cp, opts.name, SubcommandEntry(i))
        ids1 == IF opts.kind = "option" THEN st.ids \cup opts.aliases ELSE sub.ids
        sp1 == IF opts.kind = "option" THEN st.sp ELSE [st.sp EXCEPT ![i] = sub.sp]
        spl1 == IF opts.kind = "option" THEN st.spl
                ELSE [st.spl EXCEPT ![i] =
                        [assigned |-> TRUE,
                         stop |-> Len(opts.options) + (IF opts.nargs THEN 1 ELSE 0) + sub.rl]]
        rl1 == IF opts.requires # <<>> THEN Max(Len(opts.requires), st.rl) ELSE st.rl
    IN  [cp |-> IF opts.requires # <<>> THEN SetSentences(cp1, opts.requires) ELSE cp1,
         ids |-> IF opts.requires # <<>> THEN ids1 \cup Range(opts.requires) ELSE ids1,
         ds |-> st.ds /\ (opts.separators \subseteq AnalyserSeparators),
         sp |-> sp1,
         spl |-> spl1,
         rl |-> rl1,
         pl |-> [assigned |-> TRUE,
                 stop |-> Len(nodes) + (IF need_main_args THEN 1 ELSE 0) + rl1]]

RECURSIVE ParseFrom(_, _, _)
ParseFrom(st, nodes, i) ==
    IF i > Len(nodes) THEN st ELSE ParseFrom(ParseNode(st, nodes, i), nodes, i + 1)

Unassigned == [assigned |-> FALSE, stop |-> 0]

\* compile(alconna): a new Analyser, whose tables start empty, is handed to
\* default_params_parser; sub_params and sub_part_len live on the Subcommand
\* nodes of the command
default_params_parser ==
    LET st == ParseFrom([cp |-> EmptyTable, ids |-> {}, ds |-> TRUE,
                         sp |-> sub_params, spl |-> sub_part_len, rl |-> 0,
                         pl |-> Unassigned],
                        cmd_options, 1)
    IN  /\ command_params' = st.cp
        /\ param_ids' = st.ids
        /\ default_separate' = st.ds
        /\ sub_params' = st.sp
        /\ sub_part_len' = st.spl
        /\ part_len' = st.pl

Compile ==
    /\ cpc = "declared"
    /\ default_params_parser
    /\ cpc' = "compiled"
    /\ UNCHANGED <<cmd_options, need_main_args>>

\* compile (or analyse, which compiles) called again on the same command
Recompile ==
    /\ cpc = "compiled"
    /\ default_params_parser
    /\ cpc' = "recompiled"
    /\ UNCHANGED <<cmd_options, need_main_args>>

\* ---- the commands declared
Priorities == 0..MaxPrio

AliasSets == {{"a"}, {"b"}, {"a", "b"}}

Option(aliases, priority, reqs, seps) ==
    [kind |-> "option", name |-> IF "a" \in aliases THEN "a" ELSE "b",
     aliases |-> aliases, priority |-> priority, requires |-> reqs,
     separators |-> seps, nargs |-> FALSE, options |-> <<>>]

Subcommand(name, reqs, seps, nargs, sub_opts) ==
    [kind |-> "subcommand", name |-> name, aliases |-> {name}, priority |-> 0,
     requires |-> reqs, separators |-> seps, nargs |-> nargs, options |-> sub_opts]

SeparatorSets == {{" "}, {"/"}}

TopOptions ==
    {Option(al, p, r, sp) : al \in AliasSets, p \in Priorities,
                            r \in {<<>>, <<"b">>, <<"a", "b">>}, sp \in SeparatorSets}

SubOptions ==
    {Option(al, p, r, {" "}) : al \in {{"a"}, {"b"}}, p \in Priorities,
                               r \in {<<>>, <<"b">>}}

BareSubcommands ==
    {Subcommand(n, r, sp, na, <<>>) : n \in Words, r \in {<<>>, <<"b">>},
                                      sp \in SeparatorSets, na \in BOOLEAN}

\* a command is up to MaxNodes top-level options and subcommands without
\* options of their own, or one subcommand with up to MaxSubOpts options
Commands ==
    SeqsUpTo(TopOptions \cup BareSubcommands, MaxNodes)
        \cup {<<Subcommand(n, r, {" "}, na, so)>> :
                n \in Words, r \in {<<>>, <<"b">>}, na \in BOOLEAN,
                so \in SeqsUpTo(SubOptions, MaxSubOpts)}

NodeIndex == 1..(MaxNodes + 1)

InitCVars ==
    /\ cmd_options \in Commands
    /\ need_main_args \in BOOLEAN
    /\ cpc = "declared"
    /\ command_params = EmptyTable
    /\ param_ids = {}
    /\ part_len = Unassigned
    /\ default_separate = TRUE
    /\ sub_params = [i \in NodeIndex |-> EmptyTable]
    /\ sub_part_len = [i \in NodeIndex |-> Unassigned]

IdleCVars ==
    /\ cmd_options = <<>>
    /\ need_main_args = FALSE
    /\ cpc = "declared"
    /\ command_params = EmptyTable
    /\ param_ids = {}
    /\ part_len = Unassigned
    /\ default_separate = TRUE
    /\ sub_params = [i \in NodeIndex |-> EmptyTable]
    /\ sub_part_len = [i \in NodeIndex |-> Unassigned]

NextCompile ==
    \/ Compile /\ UNCHANGED <<varsQ, varsE, varsK, varsB, varsD, varsX>>

(***************************************************************************)
(* Arparma.call                                                            *)
(***************************************************************************)
\* parameter names a target may declare, and the names of extra keywords
ParamNames == {"foo", "bar", "baz"}
ExtraNames == {"foo", "baz"}

Targets == SUBSET ParamNames

ExtraDicts == UNION {[S -> Values] : S \in SUBSET ExtraNames}

\* {k: v for k, v in d.items() if k in names}
Filter(d, names) == [k \in (DOMAIN d) \cap names |-> d[k]]

\* the same with the matched args laid over the extras
CallKwargs_MatchedOverrides(names, extra) ==
    Filter(Merge(extra, all_matched_args), names)

\* the keyword dict of line 121
CallKwargs(names, extra) == Filter(Merge(all_matched_args, extra), names)

\* call only reads the Arparma, so one call per result covers them all
call(names, extra) ==
    /\ kpc = "idle"
    /\ target' = names
    /\ additional' = extra
    /\ IF arp.matched
       THEN /\ calls' = Append(calls, CallKwargs(names, extra))
            /\ kpc' = "returned"
       ELSE /\ calls' = calls
            /\ kpc' = "raised"

InitKVars ==
    /\ kpc = "idle"
    /\ target = {}
    /\ additional = EmptyDict
    /\ calls = <<>>

IdleKVars == InitKVars

\* the analyser fills the result: main args and the results of the options
EncapsulateArgs ==
    /\ phase = "new"
    /\ \E m \in MainArgDicts, opts \in OptionDicts(OptNames) :
          encapsulate_result(m, opts, <<>>)

Call ==
    /\ phase = "encapsulated"
    /\ kpc = "idle"
    /\ \E names \in Targets, extra \in ExtraDicts : call(names, extra)

NextCall ==
    \/ EncapsulateArgs /\ UNCHANGED <<varsE, varsC, varsK, varsB, varsD, varsX>>
    \/ Call /\ UNCHANGED <<varsQ, varsE, varsC, varsB, varsD, varsX>>

(***************************************************************************)
(* encapsulate_result on results with several options and subcommands      *)
(***************************************************************************)
\* a dict has one entry per key
DistinctNames(q) == \A i, j \in DOMAIN q : q[i].name = q[j].name => i = j

OptionLists == {q \in SeqsUpTo(OptionResults(OptNames), 2) : DistinctNames(q)}

SubcommandLists == {q \in SeqsUpTo(SubcommandResults, 2) : DistinctNames(q)}

\* main_args is copied and plays no part in other_args
SomeMainArgs == {d \in MainArgDicts : DOMAIN d = {"foo"} /\ d["foo"] = 1}

EncapsulateMany ==
    /\ phase = "new"
    /\ \E m \in SomeMainArgs, opts \in OptionLists, subs \in SubcommandLists :
          encapsulate_result(m, opts, subs)

NextEncapsulate ==
    \/ EncapsulateMany /\ UNCHANGED <<varsE, varsC, varsK, varsB, varsD, varsX>>

(***************************************************************************)
(* _from_string: one option string of the string constructor.  A string is *)
(* a sequence of characters.                                               *)
(***************************************************************************)
\* the index of the first c in s, 0 when there is none
FirstIndex(s, c) ==
    IF \E i \in DOMAIN s : s[i] = c
    THEN CHOOSE i \in DOMAIN s : s[i] = c /\ \A j \in 1..(i - 1) : s[j] # c
    ELSE 0

From(s, i) == SubSeq(s, i, Len(s))

\* split_once(text, sep): the text before the first sep and the text after it
split_once(s, sep) ==
    LET i == FirstIndex(s, sep)
    IN  IF i = 0 THEN <<s, <<>>>> ELSE <<SubSeq(s, 1, i - 1), From(s, i + 1)>>

\* str.split(c)
RECURSIVE Split(_, _)
Split(s, c) ==
    LET i == FirstIndex(s, c)
    IN  IF i = 0 THEN <<s>>
        ELSE <<SubSeq(s, 1, i - 1)>> \o Split(From(s, i + 1), c)

\* re.findall(r"<(.+?)>", s): from the first "<", the shortest non-empty text
\* up to a ">", then on from behind that ">"
RECURSIVE FindArgs(_)
FindArgs(s) ==
    LET i == FirstIndex(s, "<")
        j == IF i = 0 THEN 0 ELSE FirstIndex(From(s, i + 2), ">")
    IN  IF i = 0 \/ j = 0 THEN <<>>
        ELSE <<SubSeq(s, i + 1, i + j)>> \o FindArgs(From(s, i + j + 2))

\* re.findall(r"\[(.+?)]$", s): the "]" must be the last character of s; the
\* match then starts at the first "[" that leaves a non-empty text before it
FindActionValue(s) ==
    LET n == Len(s)
        i == FirstIndex(s, "[")
    IN  IF n >= 3 /\ s[n] = "]" /\ i # 0 /\ i <= n - 2
        THEN <<SubSeq(s, i + 1, n - 1)>>
        ELSE <<>>

\* re.findall(r"#(.+)", s): everything behind the first "#", if anything is
FindHelp(s) ==
    LET i == FirstIndex(s, "#")
    IN  IF i # 0 /\ i < Len(s) THEN <<From(s, i + 1)>> ELSE <<>>

TrueText == <<"t", "r", "u", "e">>
FalseText == <<"f", "a", "l", "s", "e">>
ConstText == <<"7">>

\* eval(text, {"true": True, "false": False}) for the texts written here
Eval(text) ==
    IF text = TrueText THEN [type |-> "bool", val |-> "True"]
    ELSE IF text = FalseText THEN [type |-> "bool", val |-> "False"]
    ELSE IF text = ConstText THEN [type |-> "int", val |-> "7"]
    ELSE [type |-> "error", val |-> ""]

NoAction == [kind |-> "none", val |-> ""]
store_bool(val) == [kind |-> "store_bool", val |-> val]
store_const(val) == [kind |-> "store_const", val |-> val]

StartsWithDashes(s) == Len(s) >= 2 /\ s[1] = "-" /\ s[2] = "-"

\* the body of `for opt in option` for one option string
FromStringOption(o) ==
    LET so == split_once(o, " ")
        parts == Split(so[1], "|")
        opt_head == IF Len(parts) = 2 THEN parts[1] ELSE so[1]
        opt_alias == IF Len(parts) = 2 THEN parts[2] ELSE so[1]
        opt_others == so[2]
        opt_action_value == FindActionValue(opt_others)
        opt_help_string == IF FindHelp(opt_others) = <<>> THEN <<opt_head>>
                           ELSE FindHelp(opt_others)
        val == Eval(opt_action_value[1])
    IN  [name |-> opt_head,
         alias |-> opt_alias,
         args |-> FindArgs(opt_others),
         actions |-> IF opt_action_value = <<>> THEN NoAction
                     ELSE IF val.type = "bool" THEN store_bool(val.val)
                     ELSE store_const(val.val),
         help_text |-> opt_help_string[1]]

from_string ==
    /\ spc = "given"
    /\ IF StartsWithDashes(opt)
       THEN /\ built_options' = Append(built_options, FromStringOption(opt))
            /\ spc' = "built"
       ELSE /\ built_options' = built_options
            /\ spc' = "skipped"
    /\ UNCHANGED <<opt_form, opt>>

\* ---- the option strings given
LongName == <<"-", "-", "l">>
ShortName == <<"-", "s">>
ThirdName == <<"-", "x">>
BareName == <<"l">>

HeadForms == {<<LongName>>, <<LongName, ShortName>>,
              <<LongName, ShortName, ThirdName>>, <<BareName>>}

ArgPiece == [kind |-> "arg", text |-> <<"a">>]
HelpPiece == [kind |-> "help", text |-> <<"h">>]
ActionPiece(t) == [kind |-> "action", text |-> t]
ActionPieces == {ActionPiece(t) : t \in {TrueText, FalseText, ConstText}}

\* at most one piece of each kind, in any order
PieceLists ==
    {q \in SeqsUpTo({ArgPiece, HelpPiece} \cup ActionPieces, 3) :
        \A i, j \in DOMAIN q : q[i].kind = q[j].kind => i = j}

RenderPiece(p) ==
    IF p.kind = "arg" THEN <<"<">> \o p.text \o <<">">>
    ELSE IF p.kind = "action" THEN <<"[">> \o p.text \o <<"]">>
    ELSE <<"#">> \o p.text

RECURSIVE Join(_, _)
Join(q, sep) ==
    IF q = <<>> THEN <<>>
    ELSE IF Len(q) = 1 THEN q[1]
    ELSE q[1] \o <<sep>> \o Join(Tail(q), sep)

Render(form) ==
    Join(<<Join(form.names, "|")>> \o [i \in DOMAIN form.pieces |-> RenderPiece(form.pieces[i])],
         " ")

InitBVars ==
    /\ opt_form \in [names : HeadForms, pieces : PieceLists]
    /\ opt = Render(opt_form)
    /\ spc = "given"
    /\ built_options = <<>>

IdleBVars ==
    /\ opt_form = [names |-> <<LongName>>, pieces |-> <<>>]
    /\ opt = LongName
    /\ spc = "given"
    /\ built_options = <<>>

NextFromString ==
    \/ from_string /\ UNCHANGED <<varsQ, varsE, varsC, varsK, varsD, varsX>>

NextRecompile ==
    \/ Compile /\ UNCHANGED <<varsQ, varsE, varsK, varsB, varsD, varsX>>
    \/ Recompile /\ UNCHANGED <<varsQ, varsE, varsK, varsB, varsD, varsX>>

(***************************************************************************)
(* AlconnaDecorate                                                         *)
(***************************************************************************)
MaxEvents == 5

FuncNames == {"hello", "bye"}
OptionNames == {"--name"}
ArgsValues == {"Args1"}

NoFunc == ""
NoArgs == ""

\* if not self.__storage.get('func'): self.__storage['func'] = func
StoreFunc(st, func) ==
    IF st.func = NoFunc THEN [st EXCEPT !.func = func] ELSE st

Wrapper(kind, arg) == [kind |-> kind, arg |-> arg]

Log(e) == events' = Append(events, e)

\* ALCCommand(Alconna(options=storage options, main_args=storage main_args),
\* storage func), kept with the function the wrapper was applied to
ALCCommand(st, func) ==
    [options |-> st.options, main_args |-> st.main_args, func |-> st.func,
     decorated |-> func, at |-> Len(events) + 1]

\* build_command(): start building and hand out the wrapper
build_command ==
    /\ Len(events) < MaxEvents
    /\ building' = TRUE
    /\ wrappers' = wrappers \cup {Wrapper("build", "")}
    /\ Log("build_command")
    /\ UNCHANGED <<storage, built>>

\* faulty variant: the wrapper builds the command and leaves building set
BuildWrapper_KeepsBuilding(func) ==
    /\ Len(events) < MaxEvents
    /\ Wrapper("build", "") \in wrappers
    /\ storage' = StoreFunc(storage, func)
    /\ building' = building
    /\ built' = Append(built, ALCCommand(StoreFunc(storage, func), func))
    /\ Log("build_wrapper")
    /\ UNCHANGED wrappers

\* the wrapper build_command returned, applied to func
BuildWrapper(func) ==
    /\ Len(events) < MaxEvents
    /\ Wrapper("build", "") \in wrappers
    /\ storage' = StoreFunc(storage, func)
    /\ building' = FALSE
    /\ built' = Append(built, ALCCommand(StoreFunc(storage, func), func))
    /\ Log("build_wrapper")
    /\ UNCHANGED wrappers

\* option(name, ...): raises unless building, else hands out its wrapper
option(name) ==
    /\ Len(events) < MaxEvents
    /\ IF ~building
       THEN /\ Log("option_raised")
            /\ UNCHANGED wrappers
       ELSE /\ Log("option_returned")
            /\ wrappers' = wrappers \cup {Wrapper("option", name)}
    /\ UNCHANGED <<building, storage, built>>

\* the wrapper option returned, applied to func
OptionWrapper(name, func) ==
    /\ Len(events) < MaxEvents
    /\ Wrapper("option", name) \in wrappers
    /\ storage' = [StoreFunc(storage, func) EXCEPT !.options = Append(@, name)]
    /\ Log("option_wrapper")
    /\ UNCHANGED <<building, wrappers, built>>

\* arguments(args): raises unless building, else hands out its wrapper
arguments(args) ==
    /\ Len(events) < MaxEvents
    /\ IF ~building
       THEN /\ Log("arguments_raised")
            /\ UNCHANGED wrappers
       ELSE /\ Log("arguments_returned")
            /\ wrappers' = wrappers \cup {Wrapper("arguments", args)}
    /\ UNCHANGED <<building, storage, built>>

\* the wrapper arguments returned, applied to func
ArgumentsWrapper(args, func) ==
    /\ Len(events) < MaxEvents
    /\ Wrapper("arguments", args) \in wrappers
    /\ storage' = [StoreFunc(storage, func) EXCEPT !.main_args = args]
    /\ Log("arguments_wrapper")
    /\ UNCHANGED <<building, wrappers, built>>

\* AlconnaDecorate.__init__
InitDVars ==
    /\ building = FALSE
    /\ storage = [options |-> <<>>, main_args |-> NoArgs, func |-> NoFunc]
    /\ wrappers = {}
    /\ events = <<>>
    /\ built = <<>>

IdleDVars == InitDVars

NextDecorate ==
    \/ build_command /\ UNCHANGED <<varsQ, varsE, varsC, varsK, varsB, varsX>>
    \/ (\E func \in FuncNames : BuildWrapper(func))
          /\ UNCHANGED <<varsQ, varsE, varsC, varsK, varsB, varsX>>
    \/ (\E name \in OptionNames : option(name))
          /\ UNCHANGED <<varsQ, varsE, varsC, varsK, varsB, varsX>>
    \/ (\E name \in OptionNames, func \in FuncNames : OptionWrapper(name, func))
          /\ UNCHANGED <<varsQ, varsE, varsC, varsK, varsB, varsX>>
    \/ (\E args \in ArgsValues : arguments(args))
          /\ UNCHANGED <<varsQ, varsE, varsC, varsK, varsB, varsX>>
    \/ (\E args \in ArgsValues, func \in FuncNames : ArgumentsWrapper(args, func))
          /\ UNCHANGED <<varsQ, varsE, varsC, varsK, varsB, varsX>>

(***************************************************************************)
(* The CLI: main and its commands create, analysis, using                  *)
(***************************************************************************)
MaxRuns == 3

NoFile == [exists |-> FALSE, entries |-> EmptyDict]
File(data) == [exists |-> TRUE, entries |-> data]

CreateKey == "ALCLI::create"
AnalysisKey == "ALCLI::analysis"

CommandNames == {"c1", "c2"}
AnalysedTexts == {"t1", "t2"}

\* what the user types: nothing, --help, a text no command matches, or one of
\* the commands
CliArgs ==
    {[kind |-> k, analysed |-> FALSE, name |-> ""] : k \in {"none", "--help", "other", "using"}}
    \cup {[kind |-> "create", analysed |-> a, name |-> n] :
            a \in BOOLEAN, n \in CommandNames \cup {""}}
    \cup {[kind |-> "analysis", analysed |-> FALSE, name |-> t] : t \in AnalysedTexts}

\* the construct_command text, named by what it was built from
TextFromName(n) == [built_from |-> "name", of |-> n]
TextFromAnalysis(d) == [built_from |-> "analysis", of |-> d.of]

Handled(data, used, reported) == [data |-> data, used |-> used, reported |-> reported]

NothingUsed == [built_from |-> "nothing", of |-> ""]

\* the structure command_analysis reads off a text
AnalysisOf(t) == [built_from |-> "text", of |-> t]

\* command_create(result)
command_create(a, data) ==
    IF a.analysed
    THEN IF AnalysisKey \notin DOMAIN data
         THEN Handled(data, NothingUsed, TRUE)
         ELSE Handled(Merge(data, [k \in {CreateKey} |-> TextFromAnalysis(data[AnalysisKey])]),
                      data[AnalysisKey], FALSE)
    ELSE IF a.name = ""
         THEN Handled(data, NothingUsed, TRUE)
         ELSE Handled(Merge(data, [k \in {CreateKey} |-> TextFromName(a.name)]),
                      NothingUsed, FALSE)

\* command_analysis(arpamar): the structure read off the text
command_analysis(a, data) ==
    Handled(Merge(data, [k \in {AnalysisKey} |-> AnalysisOf(a.name)]),
            NothingUsed, FALSE)

\* faulty variant: without a stored text, using parses with an empty command
command_using_Fallback(a, data) ==
    IF CreateKey \notin DOMAIN data
    THEN Handled(data, TextFromName(""), FALSE)
    ELSE Handled(data, data[CreateKey], FALSE)

\* command_using(arpamar)
command_using(a, data) ==
    IF CreateKey \notin DOMAIN data
    THEN Handled(data, NothingUsed, TRUE)
    ELSE Handled(data, data[CreateKey], FALSE)

\* the loop of main over the ALCLI commands: the one matching is dispatched
Dispatch(a, data) ==
    IF a.kind = "create" THEN command_create(a, data)
    ELSE IF a.kind = "analysis" THEN command_analysis(a, data)
    ELSE IF a.kind = "using" THEN command_using(a, data)
    ELSE Handled(data, NothingUsed, FALSE)

Loaded == IF cache_file.exists THEN cache_file.entries ELSE EmptyDict

main(a) ==
    /\ Len(runs) < MaxRuns
    /\ IF a.kind = "none"
       THEN /\ UNCHANGED <<cache_file, cache_data>>
            /\ runs' = Append(runs, [args |-> a, before |-> cache_file,
                                     used |-> NothingUsed, reported |-> FALSE])
       ELSE IF a.kind = "--help"
       THEN /\ cache_data' = Loaded
            /\ UNCHANGED cache_file
            /\ runs' = Append(runs, [args |-> a, before |-> cache_file,
                                     used |-> NothingUsed, reported |-> FALSE])
       ELSE LET h == Dispatch(a, Loaded)
            IN  /\ cache_data' = h.data
                /\ cache_file' = File(h.data)
                /\ runs' = Append(runs, [args |-> a, before |-> cache_file,
                                         used |-> h.used, reported |-> h.reported])

InitLVars ==
    /\ cache_file = NoFile
    /\ cache_data = EmptyDict
    /\ runs = <<>>

Main == \E a \in CliArgs : main(a)

NextMain ==
    \/ Main /\ UNCHANGED <<varsQ, varsE, varsC, varsK, varsB, varsD, varsO, varsM, varsV, varsT>>

(***************************************************************************)
(* OutputActionManager                                                     *)
(***************************************************************************)
NoCommand == "<None>"
GlobalName == "$global"

OutCommands == {NoCommand, GlobalName, "cmd"}
Actions == {"print", "act"}
Generators == {"g1", "g2"}
NoGenerator == "<None>"

\* command or "$global"
Named(command) == IF command = NoCommand THEN GlobalName ELSE command

\* OutputAction(action, generator): its cache starts empty
OutputAction(action, generator) ==
    [action |-> action, generator |-> generator, cache |-> EmptyDict]

\* OutputAction.handle: the dict {"help": self.generator()}, which ArgAction.handle
\* hands to the action and returns
Handle(oa) == [k \in {"help"} |-> oa.generator]

Op(op, command, generator, exc) ==
    [op |-> op, command |-> command, generator |-> generator, exc |-> exc,
     before |-> [mcache |-> mcache, outputs |-> outputs]]

\* the outputs dict after set(generator, command)
SetOutputs(generator, command) ==
    LET c == Named(command)
    IN  IF c \in DOMAIN outputs
        THEN [outputs EXCEPT ![c].generator = generator]
        ELSE IF c \in DOMAIN mcache
        THEN Merge(outputs, [k \in {c} |-> OutputAction(mcache[c], generator)])
        ELSE Merge(outputs, [k \in {c} |-> OutputAction(send_action, generator)])

\* the pending cache after set(generator, command): cache.pop(command)
SetCache(command) ==
    LET c == Named(command)
    IN  IF c \notin DOMAIN outputs /\ c \in DOMAIN mcache
        THEN [k \in (DOMAIN mcache) \ {c} |-> mcache[k]]
        ELSE mcache

\* faulty variant: the pending action is read but stays in the pending cache
set_KeepsPending(generator, command) ==
    /\ outputs' = SetOutputs(generator, command)
    /\ mcache' = mcache
    /\ last_op' = Op("set", command, generator, "")
    /\ UNCHANGED <<send_action, capturing>>

set(generator, command) ==
    /\ outputs' = SetOutputs(generator, command)
    /\ mcache' = SetCache(command)
    /\ last_op' = Op("set", command, generator, "")
    /\ UNCHANGED <<send_action, capturing>>

set_action(action, command) ==
    /\ IF command = NoCommand \/ command = GlobalName
       THEN /\ send_action' = action
            /\ UNCHANGED <<outputs, mcache>>
       ELSE IF command \in DOMAIN outputs
       THEN /\ outputs' = [outputs EXCEPT ![command].action = action]
            /\ UNCHANGED <<send_action, mcache>>
       ELSE /\ mcache' = Merge(mcache, [k \in {command} |-> action])
            /\ UNCHANGED <<send_action, outputs>>
    /\ last_op' = Op("set_action", command, NoGenerator, "")
    /\ UNCHANGED capturing

\* send(command, generator): with no action registered, line 46 evaluates
\* action.cache on None before it calls self.set
send(command, generator) ==
    LET c == Named(command)
    IN  /\ IF c \in DOMAIN outputs
           THEN LET g == IF generator # NoGenerator THEN generator
                         ELSE outputs[c].generator
                    oa == [outputs[c] EXCEPT !.generator = g]
                IN  /\ outputs' = [outputs EXCEPT
                                      ![c] = [oa EXCEPT !.cache = Merge(@, Handle(oa))]]
                    /\ last_op' = Op("send", command, generator, "")
           ELSE IF generator # NoGenerator
           THEN /\ outputs' = outputs
                /\ last_op' = Op("send", command, generator, "AttributeError")
           ELSE /\ outputs' = outputs
                /\ last_op' = Op("send", command, generator, "KeyError")
        /\ UNCHANGED <<mcache, send_action, capturing>>

NotCapturing == [active |-> FALSE, command |-> ""]

\* `with capture(command):` up to the yield
capture_enter(command) ==
    /\ ~capturing.active
    /\ IF Named(command) \notin DOMAIN outputs
       THEN /\ last_op' = Op("capture", command, NoGenerator, "KeyError")
            /\ capturing' = capturing
       ELSE /\ last_op' = Op("capture", command, NoGenerator, "")
            /\ capturing' = [active |-> TRUE, command |-> Named(command)]
    /\ UNCHANGED <<mcache, outputs, send_action>>

\* the block ends: normally, and the generator resumes behind the yield, or by
\* an exception, which is thrown into the generator at the yield
capture_exit(raised) ==
    /\ capturing.active
    /\ outputs' = IF raised THEN outputs
                  ELSE [outputs EXCEPT ![capturing.command].cache = EmptyDict]
    /\ capturing' = NotCapturing
    /\ last_op' = Op(IF raised THEN "capture_raised" ELSE "capture_done",
                     capturing.command, NoGenerator, "")
    /\ UNCHANGED <<mcache, send_action>>

InitOVars ==
    /\ mcache = EmptyDict
    /\ outputs = EmptyDict
    /\ send_action = "print"
    /\ capturing = NotCapturing
    /\ last_op = [op |-> "none", command |-> "", generator |-> NoGenerator, exc |-> "",
                  before |-> [mcache |-> EmptyDict, outputs |-> EmptyDict]]

NextOutput ==
    \/ (\E g \in Generators, c \in OutCommands : set(g, c))
          /\ UNCHANGED <<varsQ, varsE, varsC, varsK, varsB, varsD, varsL, varsM, varsV, varsT>>
    \/ (\E a \in Actions, c \in OutCommands : set_action(a, c))
          /\ UNCHANGED <<varsQ, varsE, varsC, varsK, varsB, varsD, varsL, varsM, varsV, varsT>>
    \/ (\E c \in OutCommands, g \in Generators \cup {NoGenerator} : send(c, g))
          /\ UNCHANGED <<varsQ, varsE, varsC, varsK, varsB, varsD, varsL, varsM, varsV, varsT>>
    \/ (\E c \in OutCommands : capture_enter(c))
          /\ UNCHANGED <<varsQ, varsE, varsC, varsK, varsB, varsD, varsL, varsM, varsV, varsT>>
    \/ (\E raised \in BOOLEAN : capture_exit(raised))
          /\ UNCHANGED <<varsQ, varsE, varsC, varsK, varsB, varsD, varsL, varsM, varsV, varsT>>

(***************************************************************************)
(* Commands: on and broadcast                                              *)
(***************************************************************************)
Alcs == {"a", "b", "c"}
Funcs == {"f", "g"}

\* alc.path: no two registered commands share one
Path(alc) == alc

\* executor.result for a matched parse: the bound function called on it
Result(func, alc) == <<func, alc>>

NoBroadcast ==
    [done |-> FALSE, executors |-> <<>>, matching |-> {}, parsed |-> <<>>,
     executed |-> <<>>, data |-> EmptyDict]

IndexOfAlc(alc) == CHOOSE i \in DOMAIN executors : executors[i].alc = alc

\* self.executors[alc] = (alc.bind(False)(func), block): a known key keeps
\* its place in the dict, a new key goes last
on(alc, block, func) ==
    /\ executors' =
          IF \E i \in DOMAIN executors : executors[i].alc = alc
          THEN [executors EXCEPT ![IndexOfAlc(alc)] =
                                    [alc |-> alc, func |-> func, block |-> block]]
          ELSE Append(executors, [alc |-> alc, func |-> func, block |-> block])
    /\ bcast' = NoBroadcast

RECURSIVE Loop(_, _, _, _)
\* the for loop of broadcast from item i on; matching holds the commands whose
\* parse of the message is matched
Loop(i, matching, state, breaks) ==
    IF i > Len(executors) THEN state
    ELSE LET e == executors[i]
             parsed == Append(state.parsed, e.alc)
         IN  IF e.alc \in matching
             THEN LET after ==
                        [parsed |-> parsed,
                         executed |-> Append(state.executed, e.alc),
                         data |-> Merge(state.data,
                                        [k \in {Path(e.alc)} |-> Result(e.func, e.alc)])]
                  IN  IF breaks /\ e.block THEN after
                      ELSE Loop(i + 1, matching, after, breaks)
             ELSE Loop(i + 1, matching, [state EXCEPT !.parsed = parsed], breaks)

Broadcast(matching, breaks) ==
    LET end == Loop(1, matching,
                    [parsed |-> <<>>, executed |-> <<>>, data |-> EmptyDict], breaks)
    IN  [done |-> TRUE, executors |-> executors, matching |-> matching,
         parsed |-> end.parsed, executed |-> end.executed, data |-> end.data]

\* faulty variant: a matched blocking command does not end the loop
broadcast_NoBreak(matching) ==
    /\ bcast' = Broadcast(matching, FALSE)
    /\ UNCHANGED executors

broadcast(matching) ==
    /\ bcast' = Broadcast(matching, TRUE)
    /\ UNCHANGED executors

InitMVars ==
    /\ executors = <<>>
    /\ bcast = NoBroadcast

NextCommands ==
    \/ (\E alc \in Alcs, block \in BOOLEAN, func \in Funcs : on(alc, block, func))
          /\ UNCHANGED <<varsQ, varsE, varsC, varsK, varsB, varsD, varsL, varsO, varsV, varsT>>
    \/ (\E matching \in SUBSET Alcs : broadcast(matching))
          /\ UNCHANGED <<varsQ, varsE, varsC, varsK, varsB, varsD, varsL, varsO, varsV, varsT>>

(***************************************************************************)
(* AlconnaNodeVisitor                                                      *)
(***************************************************************************)
MaxTop == 2
MaxSub == 1

NodeNames == {"--x", "-x", "--option"}

\* name.lstrip('-')
Lstrip(name) ==
    CASE name = "--x" -> "x"
      [] name = "-x" -> "x"
      [] name = "--option" -> "option"
      [] OTHER -> name

RealNames == {Lstrip(n) : n \in NodeNames}

OptionNode(name) == [type |-> "option", name |-> name, options |-> <<>>]
SubcommandNode(name, subs) == [type |-> "subcommand", name |-> name, options |-> subs]

\* the nodes a command can hold: options, and subcommands with their options
CommandNodes ==
    {OptionNode(n) : n \in NodeNames}
        \cup {SubcommandNode(n, subs) : n \in NodeNames,
                                        subs \in SeqsUpTo({OptionNode(m) : m \in NodeNames}, MaxSub)}

\* a name of name_list: the parts its text has between the colons
QName(parts) == parts

BaseNode(nid, target_name, node_type) ==
    [node_id |-> nid, type |-> node_type, name |-> target_name, sub_nodes |-> <<>>]

InList(list, name) == \E i \in DOMAIN list : list[i] = name

\* list.index(name), counted from 0
IndexOf(list, name) ==
    (CHOOSE i \in DOMAIN list : list[i] = name /\ \A j \in 1..(i - 1) : list[j] # name) - 1

\* max(self.node_map) + 1
NewId(map) == (CHOOSE i \in DOMAIN map : \A j \in DOMAIN map : j <= i) + 1

PutNode(map, nid, node) == [i \in (DOMAIN map) \cup {nid} |-> IF i = nid THEN node ELSE map[i]]

AddSub(map, parent, nid) == [map EXCEPT ![parent].sub_nodes = Append(@, nid)]

RECURSIVE VisitSubOptions(_, _, _, _, _)
\* `for sub_node in node.options` of the subcommand with id new_id
VisitSubOptions(real_name, new_id, subs, j, st) ==
    IF j > Len(subs) \/ st.exc # "" THEN st
    ELSE LET qn == QName(<<"subcommand", real_name, Lstrip(subs[j].name)>>)
         IN  IF InList(st.name_list, qn)
             THEN [st EXCEPT !.exc = "DuplicateCommand"]
             ELSE LET sub_new_id == NewId(st.node_map)
                      made == PutNode(st.node_map, sub_new_id,
                                  BaseNode(sub_new_id, subs[j].name, "option"))
                  IN  VisitSubOptions(real_name, new_id, subs, j + 1,
                          [st EXCEPT !.name_list = Append(@, qn),
                                     !.node_map = AddSub(made, new_id, sub_new_id)])

RECURSIVE VisitOptions(_, _, _)
\* `for node in alconna.options`
VisitOptions(nodes, k, st) ==
    IF k > Len(nodes) \/ st.exc # "" THEN st
    ELSE LET node == nodes[k]
             real_name == Lstrip(node.name)
             qn == QName(<<node.type, real_name>>)
         IN  IF InList(st.name_list, qn)
             THEN [st EXCEPT !.exc = "DuplicateCommand"]
             ELSE LET new_id == NewId(st.node_map)
                      named == [st EXCEPT !.name_list = Append(@, qn),
                                          !.node_map = PutNode(@, new_id,
                                               BaseNode(new_id, node.name, node.type))]
                      inner == IF node.type = "subcommand"
                               THEN VisitSubOptions(real_name, new_id, node.options, 1, named)
                               ELSE named
                  IN  IF inner.exc # "" THEN inner
                      ELSE VisitOptions(nodes, k + 1,
                              [inner EXCEPT !.node_map = AddSub(@, 0, new_id)])

\* AlconnaNodeVisitor.__init__
Visited(alc) ==
    VisitOptions(alc.options, 1,
                 [name_list |-> <<QName(<<alc.name>>)>>,
                  node_map |-> [i \in {0} |-> BaseNode(0, alc.name, "command")],
                  exc |-> ""])

NoRequire == [done |-> FALSE, path |-> <<>>, exc |-> "", node |-> 0]

Visit ==
    /\ vpc = "new"
    /\ LET st == Visited(alconna)
       IN  IF st.exc # ""
           THEN /\ vpc' = "failed"
                /\ UNCHANGED <<name_list, node_map>>
           ELSE /\ vpc' = "built"
                /\ name_list' = st.name_list
                /\ node_map' = st.node_map
    /\ UNCHANGED <<alconna, vres>>

\* the name a non-keyword part selects when no name is cached
Bare(part, st) ==
    IF InList(name_list, QName(<<"option", part>>))
          /\ InList(name_list, QName(<<"subcommand", part>>))
    THEN [st EXCEPT !.exc = "ValueError"]
    ELSE IF InList(name_list, QName(<<"subcommand", part>>))
    THEN [st EXCEPT !.name = <<"subcommand", part>>,
                    !.node = IndexOf(name_list, QName(<<"subcommand", part>>))]
    ELSE IF InList(name_list, QName(<<"option", part>>))
    THEN [st EXCEPT !.name = <<"option", part>>,
                    !.node = IndexOf(name_list, QName(<<"option", part>>))]
    ELSE st

RECURSIVE RequireParts(_, _, _)
\* `for part in path` of require; st.name is _cache_name, st.node the id of
\* _cache_node
RequireParts(path, i, st) ==
    IF i > Len(path) \/ st.exc # "" THEN st
    ELSE LET part == path[i]
         IN  IF part \in {"option", "subcommand"}
             THEN RequireParts(path, i + 1, [st EXCEPT !.name = <<part>>])
             ELSE IF st.name # <<>>
             THEN LET name == Append(st.name, part)
                  IN  RequireParts(path, i + 1,
                          [st EXCEPT !.name = name,
                                     !.node = IF InList(name_list, QName(name))
                                              THEN IndexOf(name_list, QName(name))
                                              ELSE @])
             ELSE RequireParts(path, i + 1, Bare(part, st))

\* the paths asked for, as the parts path.split('.') gives
RequirePaths ==
    {<<k, n>> : k \in {"option", "subcommand"}, n \in RealNames}
        \cup {<<"subcommand", n, m>> : n \in RealNames, m \in RealNames}
        \cup {<<n>> : n \in RealNames}

require(path) ==
    /\ vpc = "built"
    /\ LET st == RequireParts(path, 1, [name |-> <<>>, node |-> 0, exc |-> ""])
       IN  vres' = [done |-> TRUE, path |-> path, exc |-> st.exc, node |-> st.node]
    /\ UNCHANGED <<alconna, vpc, name_list, node_map>>

IdleVVars ==
    /\ alconna = [name |-> "cmd", options |-> <<>>]
    /\ vpc = "new"
    /\ name_list = <<>>
    /\ node_map = EmptyDict
    /\ vres = NoRequire

InitVVars ==
    /\ alconna \in {[name |-> "cmd", options |-> o] : o \in SeqsUpTo(CommandNodes, MaxTop)}
    /\ vpc = "new"
    /\ name_list = <<>>
    /\ node_map = EmptyDict
    /\ vres = NoRequire

NextVisitor ==
    \/ Visit /\ UNCHANGED <<varsQ, varsE, varsC, varsK, varsB, varsD, varsL, varsO, varsM, varsT>>
    \/ (\E path \in RequirePaths : require(path))
          /\ UNCHANGED <<varsQ, varsE, varsC, varsK, varsB, varsD, varsL, varsO, varsM, varsT>>

(***************************************************************************)
(* AlconnaMounter.parse and _from_object                                   *)
(***************************************************************************)
TargetKinds == {"routine", "class", "module", "object", "none"}
MounterCommands == {"run", "_mod"}
MessageWords == {"run", "_mod", "1", "2"}
Messages == {<<w>> : w \in MessageWords} \cup {<<v, w>> : v \in MessageWords, w \in MessageWords}
NoMessage == <<>>

\* self.command.startswith("_")
StartsWithUnderscore(command) == command \in {"_mod"}

\* the mounter class _from_object picks for its target
MounterFor(obj) ==
    CASE obj = "routine" -> "FuncMounter"
      [] obj = "class" -> "ClassMounter"
      [] obj = "module" -> "ModuleMounter"
      [] obj = "object" -> "ObjectMounter"
      [] OTHER -> "ModuleMounter"

\* self._parse_action(message): the message ModuleMounter hands back, with the
\* command put in front when the command starts with "_"; None, here the
\* empty message, from every other mounter
ParseAction(m, message) ==
    IF m.kind = "ModuleMounter"
    THEN IF StartsWithUnderscore(m.command) THEN <<m.command>> \o message ELSE message
    ELSE NoMessage

\* self._parse_action(message) or message
Preprocessed(m, message) ==
    IF ParseAction(m, message) # NoMessage THEN ParseAction(m, message) ELSE message

\* the Arparma Alconna.parse makes of a message for a command
ArparmaOf(m, message) ==
    [is_none |-> FALSE, source |-> m.command, origin |-> message,
     matched |-> (message # <<>> /\ message[1] = m.command)]

NoneReturned == [is_none |-> TRUE, source |-> "", origin |-> <<>>, matched |-> FALSE]

\* AlconnaMounter.parse: super().parse(message, static) is called and its
\* value dropped, the method has no return statement
MounterParse(m, message) ==
    [done |-> TRUE, message |-> message, parsed |-> Preprocessed(m, message),
     returned |-> NoneReturned]

NoMounter == [kind |-> "", command |-> ""]
NoParse == [done |-> FALSE, message |-> <<>>, parsed |-> <<>>, returned |-> NoneReturned]

\* _from_object(target, command, config): command is the message to parse at
\* once, config['command'] the name of the command
from_object(obj, command, name) ==
    /\ mounter = NoMounter
    /\ mounter' = [kind |-> MounterFor(obj), command |-> name]
    /\ mparse' = IF command # NoMessage
                 THEN MounterParse([kind |-> MounterFor(obj), command |-> name], command)
                 ELSE NoParse

parse(message) ==
    /\ mounter # NoMounter
    /\ mparse' = MounterParse(mounter, message)
    /\ UNCHANGED mounter

InitTVars ==
    /\ mounter = NoMounter
    /\ mparse = NoParse

NextMounter ==
    \/ (\E obj \in TargetKinds, command \in Messages \cup {NoMessage},
            name \in MounterCommands : from_object(obj, command, name))
          /\ UNCHANGED <<varsQ, varsE, varsC, varsK, varsB, varsD, varsL, varsO, varsM, varsV>>
    \/ (\E message \in Messages : parse(message))
          /\ UNCHANGED <<varsQ, varsE, varsC, varsK, varsB, varsD, varsL, varsO, varsM, varsV>>

IdleXVars == InitLVars /\ InitOVars /\ InitMVars /\ IdleVVars /\ InitTVars

(***************************************************************************)
(* Specifications                                                          *)
(***************************************************************************)
InitQ == InitQVars /\ IdleEVars /\ IdleCVars /\ IdleKVars /\ IdleBVars /\ IdleDVars /\ IdleXVars

InitE == InitEVars /\ IdleQVars /\ IdleCVars /\ IdleKVars /\ IdleBVars /\ IdleDVars /\ IdleXVars

InitC == InitCVars /\ IdleQVars /\ IdleEVars /\ IdleKVars /\ IdleBVars /\ IdleDVars /\ IdleXVars

InitK ==
    /\ InitKVars /\ InitQVars /\ IdleCVars /\ IdleBVars /\ IdleDVars /\ IdleXVars
    /\ arp \in Arparmas
    /\ requires = [b \in Behaviors |-> <<>>]
    /\ src_behaviors = <<>>
    /\ epc = "idle"
    /\ elist = <<>>
    /\ exc_behaviors = <<>>
    /\ oplog = <<>>
    /\ ecancel = 0
    /\ eres = NoArparma

SpecQuery == InitQ /\ [][NextQuery]_vars

SpecExecute == InitE /\ [][NextExecute]_vars

SpecCompile == InitC /\ [][NextCompile]_vars

SpecRecompile == InitC /\ [][NextRecompile]_vars

SpecCall == InitK /\ [][NextCall]_vars

SpecEncapsulate == InitQ /\ [][NextEncapsulate]_vars

InitS == InitBVars /\ IdleQVars /\ IdleEVars /\ IdleCVars /\ IdleKVars /\ IdleDVars /\ IdleXVars

SpecFromString == InitS /\ [][NextFromString]_vars

InitD ==
    InitDVars /\ IdleQVars /\ IdleEVars /\ IdleCVars /\ IdleKVars /\ IdleBVars
        /\ IdleXVars

SpecDecorate == InitD /\ [][NextDecorate]_vars

IdleOldVars ==
    IdleQVars /\ IdleEVars /\ IdleCVars /\ IdleKVars /\ IdleBVars /\ IdleDVars

InitL == IdleOldVars /\ IdleXVars

InitO == IdleOldVars /\ IdleXVars

InitM == IdleOldVars /\ IdleXVars

SpecCommands == InitM /\ [][NextCommands]_vars

InitV == IdleOldVars /\ InitLVars /\ InitOVars /\ InitMVars /\ InitVVars /\ InitTVars

InitT == IdleOldVars /\ IdleXVars

SpecMounter == InitT /\ [][NextMounter]_vars

SpecVisitor == InitV /\ [][NextVisitor]_vars

SpecOutput == InitO /\ [][NextOutput]_vars

SpecMain == InitL /\ [][NextMain]_vars

(***************************************************************************)
(* Claims about query                                                      *)
(***************************************************************************)
EntryOf(src, key) == [kind |-> "entry", exc |-> "", at |-> src, key |-> key]

\* C1: for a one-segment path `name`, query returns the entry of the first of
\* main_args, other_args, options, subcommands that has the key `name`; when
\* none has it and `name` is not a reserved word it returns the default.
C1_BareNameLookup ==
    (phase = "queried" /\ Len(qpath) = 1) =>
        LET n == qpath[1]
        IN  IF n \in DOMAIN main_args THEN qres = EntryOf(<<"main_args">>, n)
            ELSE IF n \in DOMAIN other_args THEN qres = EntryOf(<<"other_args">>, n)
            ELSE IF HasKey(options, n) THEN qres = EntryOf(<<"options">>, n)
            ELSE IF HasKey(subcommands, n) THEN qres = EntryOf(<<"subcommands">>, n)
            ELSE n \notin ReservedWords => qres.kind = "default"

\* a bare name held by an option and by a subcommand, and by no argument:
\* the option's entry is returned
C1_Witness ==
    /\ phase = "queried"
    /\ qpath = <<"foo">>
    /\ "foo" \notin DOMAIN main_args \cup DOMAIN other_args
    /\ HasKey(options, "foo")
    /\ HasKey(subcommands, "foo")
    /\ qres = EntryOf(<<"options">>, "foo")

BothNamedFoo == HasKey(options, "foo") /\ HasKey(subcommands, "foo")

ReturnsValueOf(at) ==
    qres.kind = "attribute" /\ qres.at = at /\ qres.key = "value"

ReturnsArgsOf(at) ==
    \/ qres.kind = "mapping" /\ qres.at = at \o <<"args">>
    \/ qres.kind = "attribute" /\ qres.at = at /\ qres.key = "args"

C14_SubcommandDescent ==
    \A n \in PathNames :
        (phase = "queried" /\ qpath = <<"subcommands", n, "foo">>
            /\ HasKey(subcommands, n)) =>
            LET bar == Entry(subcommands, n)
            IN  IF HasKey(bar.options, "foo")
                THEN qres = EntryOf(<<"subcommands", n, "options">>, "foo")
                ELSE IF "foo" \in DOMAIN bar.args
                THEN qres = EntryOf(<<"subcommands", n, "args">>, "foo")
                ELSE qres.kind = "default"

\* the subcommand has both an option and an argument of the queried name
C14_Witness ==
    /\ phase = "queried"
    /\ qpath = <<"subcommands", "bar", "foo">>
    /\ HasKey(subcommands, "bar")
    /\ HasKey(Entry(subcommands, "bar").options, "foo")
    /\ "foo" \in DOMAIN Entry(subcommands, "bar").args
    /\ qres = EntryOf(<<"subcommands", "bar", "options">>, "foo")

OptionAbsent(n) ==
    phase = "queried" /\ qpath = <<"options", n>> /\ ~HasKey(options, n)

\* C15 as stated: query("options.foo") on a result without an option foo
\* returns the whole options mapping.
C15_AsStated ==
    \A n \in PathNames :
        OptionAbsent(n) =>
            qres = [kind |-> "mapping", exc |-> "", at |-> <<"options">>, key |-> ""]

\* C15: query("options.foo") on a result without an option foo returns the
\* default, foo being looked up in the options mapping; when a component is
\* itself named `options` the query raises the ambiguity error instead.
C15_AbsentOptionGivesDefault ==
    \A n \in PathNames :
        OptionAbsent(n) =>
            IF "options" \in components
            THEN qres.kind = "raise" /\ qres.exc = "ambiguous"
            ELSE qres.kind = "default"

\* the result holds another option, the queried one is absent
C15_Witness ==
    /\ OptionAbsent("bar")
    /\ HasKey(options, "foo")
    /\ qres.kind = "default"

\* C21 as stated: for an option foo of the result, query("options.foo.x") and
\* query("foo.x") return the value of foo's argument x, or the default when
\* foo has no argument x.
C21_OptionArgument ==
    \A n \in PathNames :
        (phase = "queried" /\ HasKey(options, n)
            /\ qpath \in {<<"options", n, "foo">>, <<n, "foo">>}) =>
            IF "foo" \in DOMAIN Entry(options, n).args
            THEN qres = EntryOf(<<"options", n, "args">>, "foo")
            ELSE qres.kind = "default"

\* the value a query gave when it returned an entry of main_args or other_args
ArgValueReturned ==
    IF qres.at = <<"main_args">> THEN main_args[qres.key] ELSE other_args[qres.key]

\* C23 as stated: for every key k of all_matched_args, query(k) returns
\* all_matched_args[k], the value the attribute access gives, also when the
\* name is a key of both main_args and other_args.
C23_ViewsAgree ==
    \A k \in DOMAIN all_matched_args :
        (phase = "queried" /\ qpath = <<k>>) =>
            /\ qres.kind = "entry"
            /\ qres.key = k
            /\ qres.at \in {<<"main_args">>, <<"other_args">>}
            /\ ArgValueReturned = all_matched_args[k]

(***************************************************************************)
(* Claims about execute                                                    *)
(***************************************************************************)
DirectRequires(b) == {requires[b][i] : i \in DOMAIN requires[b]} \cap Behaviors

\* every behaviour b reaches through requires lists
TransRequires(b) ==
    LET one == DirectRequires(b)
        two == UNION {DirectRequires(r) : r \in one}
        three == UNION {DirectRequires(r) : r \in two}
    IN  one \cup two \cup three

IsOwn(e) == e.own

OwnCalls == SelectSeq(oplog, IsOwn)

\* C3: execute calls operate on the listed behaviours in list order (the calls
\* for the listed behaviours themselves are a prefix of the list, the whole
\* list once execute returns self), and whenever a behaviour operates, every
\* behaviour its requires name, transitively, has operated before it.
C3_ListOrderRequiresFirst ==
    /\ Len(OwnCalls) <= Len(elist)
    /\ \A i \in DOMAIN OwnCalls : OwnCalls[i].b = elist[i]
    /\ (epc = "returned" /\ eres.kind = "self") => Len(OwnCalls) = Len(elist)
    /\ \A p \in DOMAIN oplog :
          \A r \in TransRequires(oplog[p].b) :
              \E q \in 1..(p - 1) : oplog[q].b = r

\* two listed behaviours have operated, the later one after a requirement
\* chain b1 <- b2 <- b3
C3_Witness ==
    /\ epc = "returned"
    /\ eres.kind = "self"
    /\ Len(elist) = 2
    /\ elist[2] = "b3"
    /\ elist[1] # "b3"
    /\ "b2" \in DirectRequires("b3")
    /\ "b1" \in DirectRequires("b2")
    /\ "b1" \notin DirectRequires("b3")
    /\ Len(oplog) = Len(exc_behaviors)

\* C4: a behaviour raising BehaveCancelled is skipped and the later ones still
\* operate (execute returns self only after every entry has operated, cancelled
\* or not); OutBoundsBehave stops the pipeline at the raising call, and execute
\* returns, without raising, a result with matched = false whose error_info is
\* that exception.
C4_CancelSkipsFailStops ==
    /\ (epc = "returned" /\ eres.kind = "self") => oplog = exc_behaviors
    /\ (epc = "running" /\ ecancel # 0) => ecancel <= Len(oplog)
    /\ eres.kind = "failed" =>
          /\ epc = "returned"
          /\ eres.matched = FALSE
          /\ eres.error_info = OutBoundsBehave(Len(oplog))
          /\ oplog = SubSeq(exc_behaviors, 1, Len(oplog))
    /\ epc = "raised" => eres.kind = "none"

\* a cancelled behaviour was followed by further operate calls, then one raised
\* OutBoundsBehave while entries were still to come
C4_Witness ==
    /\ epc = "returned"
    /\ eres.kind = "failed"
    /\ arp.matched
    /\ ecancel # 0
    /\ ecancel + 1 < Len(oplog)
    /\ Len(oplog) < Len(exc_behaviors)

\* C12: the result execute returns has the origin and the source command id
\* of the Arparma it was called on, whether there was no behaviour, all
\* behaviours succeeded, one was cancelled, or one failed the result with
\* OutBoundsBehave.
C12_ResultKeepsOriginAndSource ==
    epc = "returned" =>
        /\ eres.kind \in {"self", "failed"}
        /\ eres.source = arp.source
        /\ eres.origin = arp.origin

\* the second command's result, failed by the last of several behaviours after
\* an earlier one was cancelled
C12_Witness ==
    /\ epc = "returned"
    /\ eres.kind = "failed"
    /\ arp.source = "cmd2"
    /\ eres.origin = "msg2"
    /\ ecancel # 0
    /\ Len(oplog) = Len(exc_behaviors)
    /\ Len(oplog) > 1

\* C16 as stated: within one execute call, whose list names no behaviour
\* twice, each behaviour operates at most once, also when several listed
\* behaviours require it or it is listed next to a behaviour requiring it.
C16_OperatesAtMostOnce ==
    NoRepeat(elist) =>
        \A i, j \in DOMAIN oplog : oplog[i].b = oplog[j].b => i = j

\* C20 as stated: an execute call that runs to its end has operated every
\* behaviour registered on the source command, in registration order and
\* skipping none, and then the behaviours passed to it, in order.
C20_AllRegisteredOperate ==
    (epc = "returned" /\ eres.kind = "self") =>
        \E behaviors \in BehaviorLists :
            [i \in DOMAIN OwnCalls |-> OwnCalls[i].b] = src_behaviors \o behaviors

(***************************************************************************)
(* Claims about compile                                                    *)
(***************************************************************************)
IsOption(nodes, i) == nodes[i].kind = "option"

OptionsWithAlias(nodes, a) ==
    {i \in DOMAIN nodes : IsOption(nodes, i) /\ a \in nodes[i].aliases}

SubcommandsNamed(nodes, a) ==
    {i \in DOMAIN nodes : ~IsOption(nodes, i) /\ nodes[i].name = a}

\* descending priority, equal priorities in declaration order, nothing twice
PriorityOrdered(refs, nodes) ==
    \A p, q \in DOMAIN refs :
        p < q => \/ nodes[refs[p]].priority > nodes[refs[q]].priority
                 \/ /\ nodes[refs[p]].priority = nodes[refs[q]].priority
                    /\ refs[p] < refs[q]

\* the lists of one alias table: every list stored is in priority order and
\* holds options of that alias only; an alias that options carry and no
\* subcommand is named after has the list of all those options
ListsOrdered(table, nodes) ==
    /\ \A a \in DOMAIN table :
          table[a].kind = "options" =>
              /\ PriorityOrdered(table[a].refs, nodes)
              /\ Range(table[a].refs) \subseteq OptionsWithAlias(nodes, a)
    /\ \A a \in MessageWords :
          (OptionsWithAlias(nodes, a) # {} /\ SubcommandsNamed(nodes, a) = {}) =>
              /\ a \in DOMAIN table
              /\ table[a].kind = "options"
              /\ Range(table[a].refs) = OptionsWithAlias(nodes, a)

C6_EveryNodeInTable ==
    cpc = "compiled" =>
        \A i \in DOMAIN cmd_options :
            IF IsOption(cmd_options, i)
            THEN \A a \in cmd_options[i].aliases :
                    /\ a \in DOMAIN command_params
                    /\ command_params[a].kind = "options"
                    /\ i \in Range(command_params[a].refs)
            ELSE /\ cmd_options[i].name \in DOMAIN command_params
                 /\ command_params[cmd_options[i].name] = SubcommandEntry(i)

SentencesFor(table, reqs) ==
    \A k \in Range(reqs) : k \in DOMAIN table /\ table[k] = Sentence(k)

\* C7 as stated: after compile every word of a node's requires list is a key
\* of the alias table of its level and the value under it is the Sentence
\* marker of that word.
C7_RequiresAreSentences ==
    cpc = "compiled" =>
        \A i \in DOMAIN cmd_options :
            /\ SentencesFor(command_params, cmd_options[i].requires)
            /\ \A j \in DOMAIN cmd_options[i].options :
                  SentencesFor(sub_params[i], cmd_options[i].options[j].requires)

\* C8 as stated: after compile param_ids contains every alias of every
\* top-level option, every subcommand name, every alias of every option of a
\* subcommand and every requirement word of every node, those of the options
\* inside a subcommand included.
C8_ParamIdsComplete ==
    cpc = "compiled" =>
        \A i \in DOMAIN cmd_options :
            /\ cmd_options[i].aliases \subseteq param_ids
            /\ Range(cmd_options[i].requires) \subseteq param_ids
            /\ \A j \in DOMAIN cmd_options[i].options :
                  /\ cmd_options[i].options[j].aliases \subseteq param_ids
                  /\ Range(cmd_options[i].options[j].requires) \subseteq param_ids

LongestRequires(nodes) ==
    IF nodes = <<>> THEN 0
    ELSE CHOOSE n \in 0..2 :
            /\ \A i \in DOMAIN nodes : Len(nodes[i].requires) <= n
            /\ \E i \in DOMAIN nodes : Len(nodes[i].requires) = n

\* C9 as stated: after compile part_len spans (number of top-level nodes)
\* + (1 if the command needs main args) + (length of the longest requires
\* list among the top-level nodes) iterations, for every command, one without
\* options included.
C9_PartLen ==
    cpc = "compiled" =>
        part_len.stop = Len(cmd_options) + (IF need_main_args THEN 1 ELSE 0)
                            + LongestRequires(cmd_options)

\* the sub_params tables the first compile of the command leaves
FirstSubParams ==
    ParseFrom([cp |-> EmptyTable, ids |-> {}, ds |-> TRUE,
               sp |-> [i \in NodeIndex |-> EmptyTable],
               spl |-> [i \in NodeIndex |-> Unassigned], rl |-> 0,
               pl |-> Unassigned],
              cmd_options, 1).sp

TimesIn(refs, j) == Cardinality({p \in DOMAIN refs : refs[p] = j})

\* C19 as stated: compiling a command again leaves each subcommand's
\* sub_params as the first compile made it, every option of the subcommand
\* once under each of its aliases.
C19_RecompileIdempotent ==
    cpc = "recompiled" =>
        \A i \in DOMAIN cmd_options :
            /\ sub_params[i] = FirstSubParams[i]
            /\ \A j \in DOMAIN cmd_options[i].options :
                  \A a \in cmd_options[i].options[j].aliases :
                      /\ a \in DOMAIN sub_params[i]
                      /\ sub_params[i][a].kind = "options"
                      /\ TimesIn(sub_params[i][a].refs, j) = 1

(***************************************************************************)
(* Claims about call                                                       *)
(***************************************************************************)
\* C10: a call on a result that is not matched raises and does not invoke
\* the target; a call on a matched result invokes the target exactly once,
\* with exactly the entries of all_matched_args and of the extra keywords
\* whose key is a parameter name of the target, the extra winning where a
\* matched arg has the same name.
C10_CallFiltersMergedArgs ==
    kpc # "idle" =>
        IF ~arp.matched
        THEN kpc = "raised" /\ calls = <<>>
        ELSE /\ kpc = "returned"
             /\ Len(calls) = 1
             /\ DOMAIN calls[1] =
                    ((DOMAIN all_matched_args) \cup (DOMAIN additional)) \cap target
             /\ \A k \in DOMAIN calls[1] :
                    calls[1][k] = IF k \in DOMAIN additional
                                  THEN additional[k] ELSE all_matched_args[k]

\* a matched call where an extra overrides a matched arg of another value and
\* a matched arg that the target does not declare is left out
C10_Witness ==
    /\ kpc = "returned"
    /\ arp.matched
    /\ Len(calls) = 1
    /\ \E k \in (DOMAIN additional) \cap (DOMAIN all_matched_args) \cap target :
          /\ additional[k] # all_matched_args[k]
          /\ calls[1][k] = additional[k]
    /\ \E k \in (DOMAIN all_matched_args) \ target : k \notin DOMAIN calls[1]

(***************************************************************************)
(* Claims about encapsulate_result                                         *)
(***************************************************************************)
\* the args dicts in the order named by the claim: those of all options, then
\* for each subcommand its own and those of its options
RECURSIVE ArgSources(_)
ArgSources(subs) ==
    IF subs = <<>> THEN <<>>
    ELSE <<Head(subs).args>>
            \o [i \in DOMAIN Head(subs).options |-> Head(subs).options[i].args]
            \o ArgSources(Tail(subs))

AllArgSources == [i \in DOMAIN options |-> options[i].args] \o ArgSources(subcommands)

\* C11: after encapsulate_result on an Arparma whose other_args was empty,
\* other_args has exactly the keys of the args dicts of the options, of the
\* subcommands and of the options nested in subcommands, and under each key
\* the value of the last dict holding it, the dicts taken as all options
\* first, then each subcommand followed by its own options.
C11_OtherArgsFlattened ==
    phase = "encapsulated" =>
        LET src == AllArgSources
        IN  /\ DOMAIN other_args = UNION {DOMAIN src[i] : i \in DOMAIN src}
            /\ \A k \in DOMAIN other_args :
                  \E i \in DOMAIN src :
                      /\ k \in DOMAIN src[i]
                      /\ other_args[k] = src[i][k]
                      /\ \A j \in DOMAIN src : j > i => k \notin DOMAIN src[j]

\* an option of the first subcommand and the second subcommand itself both
\* carry foo, with different values: the second subcommand's value is kept
C11_Witness ==
    /\ phase = "encapsulated"
    /\ Len(subcommands) = 2
    /\ Len(subcommands[1].options) = 1
    /\ "foo" \in DOMAIN subcommands[1].options[1].args
    /\ "foo" \in DOMAIN subcommands[2].args
    /\ subcommands[2].options = <<>>
    /\ subcommands[1].options[1].args["foo"] # subcommands[2].args["foo"]
    /\ other_args["foo"] = subcommands[2].args["foo"]

(***************************************************************************)
(* Claims about the string constructor                                     *)
(***************************************************************************)
PieceRank(p) == IF p.kind = "arg" THEN 1 ELSE IF p.kind = "action" THEN 2 ELSE 3

\* --long|-short, then the pieces present in the order <arg> [v] #help
DocumentedForm ==
    /\ opt_form.names = <<LongName, ShortName>>
    /\ \A i, j \in DOMAIN opt_form.pieces :
          i < j => PieceRank(opt_form.pieces[i]) < PieceRank(opt_form.pieces[j])

PiecesOf(kind) ==
    {opt_form.pieces[i] : i \in {j \in DOMAIN opt_form.pieces : opt_form.pieces[j].kind = kind}}

StoreActionFor(text) ==
    IF text = TrueText THEN store_bool("True")
    ELSE IF text = FalseText THEN store_bool("False")
    ELSE store_const("7")

\* C17 as stated: for an option string `--long|-short <arg> [v] #help` the
\* option built is named --long with alias -short, [v] selects the store
\* action (store_true / store_false for true / false, store_const of v
\* otherwise), the text behind # is its help text, and a string without a
\* bracketed value gets no store action.
C17_OptionString ==
    (spc = "built" /\ DocumentedForm) =>
        LET o == built_options[1]
        IN  /\ o.name = LongName
            /\ o.alias = ShortName
            /\ \A p \in PiecesOf("action") : o.actions = StoreActionFor(p.text)
            /\ PiecesOf("action") = {} => o.actions = NoAction
            /\ \A p \in PiecesOf("help") : o.help_text = p.text

(***************************************************************************)
(* Claims about AlconnaDecorate                                            *)
(***************************************************************************)
\* at call i a build is in progress: build_command was called before it and no
\* wrapper of build_command has been applied since
BuildInProgress(i) ==
    \E b \in 1..(i - 1) :
        /\ events[b] = "build_command"
        /\ \A j \in (b + 1)..(i - 1) : events[j] # "build_wrapper"

\* C18: option and arguments raise unless a build is in progress; they return
\* only between a call of build_command and the application of the wrapper it
\* returned, and applying that wrapper ends the building phase, so a later
\* call raises again.
C18_OptionNeedsBuilding ==
    \A i \in DOMAIN events :
        /\ events[i] \in {"option_returned", "arguments_returned"} => BuildInProgress(i)
        /\ events[i] \in {"option_raised", "arguments_raised"} => ~BuildInProgress(i)

\* a whole decoration, then one more option call, which raises
C18_Witness ==
    events = <<"build_command", "option_returned", "option_wrapper",
               "build_wrapper", "option_raised">>

\* the build_command call that command i of built was built under
BuildCallOf(i) ==
    CHOOSE b \in 1..built[i].at :
        /\ events[b] = "build_command"
        /\ \A k \in (b + 1)..built[i].at : events[k] # "build_command"

\* the events between that build_command call and the wrapper's application
OwnEvents(i) == SubSeq(events, BuildCallOf(i), built[i].at)

\* the options declared for command i: one for each option wrapper applied
DeclaredOptions(i) ==
    LET ws == SelectSeq(OwnEvents(i), LAMBDA e : e = "option_wrapper")
    IN  [k \in DOMAIN ws |-> CHOOSE name \in OptionNames : TRUE]

DeclaredArgs(i) ==
    IF \E k \in DOMAIN OwnEvents(i) : OwnEvents(i)[k] = "arguments_wrapper"
    THEN CHOOSE args \in ArgsValues : TRUE
    ELSE NoArgs

\* C28: commands built one after another with the same AlconnaDecorate are
\* independent: each holds exactly the options and main args declared between
\* its own build_command call and the application of its wrapper, and its
\* target is its own decorated function.
C28_BuildsIndependent ==
    \A i \in DOMAIN built :
        /\ built[i].func = built[i].decorated
        /\ built[i].options = DeclaredOptions(i)
        /\ built[i].main_args = DeclaredArgs(i)

(***************************************************************************)
(* Claims about the CLI                                                    *)
(***************************************************************************)
\* the entries of the cache file, none when there is no file
EntriesOf(file) == file.entries

\* the file left by invocation i
AfterRun(i) == IF i = Len(runs) THEN cache_file ELSE runs[i + 1].before

\* an invocation before i was a create that stored text
CreatedBefore(i, text) ==
    \E j \in 1..(i - 1) :
        /\ runs[j].args.kind = "create"
        /\ ~runs[j].reported
        /\ CreateKey \in DOMAIN EntriesOf(AfterRun(j))
        /\ EntriesOf(AfterRun(j))[CreateKey] = text

\* an invocation before i was an analysis that stored data
AnalysedBefore(i, data) ==
    \E j \in 1..(i - 1) :
        /\ runs[j].args.kind = "analysis"
        /\ EntriesOf(AfterRun(j))[AnalysisKey] = data

\* C22: over successive invocations of main sharing the cache file, using
\* parses only with a command text an earlier create stored, create --analysed
\* builds only from data an earlier analysis stored, and an invocation whose
\* precondition is not met reports it and leaves the stored entries as they
\* were.
C22_CacheDiscipline ==
    \A i \in DOMAIN runs :
        /\ (runs[i].args.kind = "using" /\ ~runs[i].reported)
              => CreatedBefore(i, runs[i].used)
        /\ (runs[i].args.kind = "create" /\ runs[i].args.analysed /\ ~runs[i].reported)
              => AnalysedBefore(i, runs[i].used)
        /\ (runs[i].args.kind = "using" /\ CreateKey \notin DOMAIN EntriesOf(runs[i].before))
              => runs[i].reported
        /\ (runs[i].args.kind = "create" /\ runs[i].args.analysed
                /\ AnalysisKey \notin DOMAIN EntriesOf(runs[i].before))
              => runs[i].reported
        /\ runs[i].reported => EntriesOf(AfterRun(i)) = EntriesOf(runs[i].before)

\* analysis, then create --analysed, then using parses with the text built
C22_Witness ==
    /\ Len(runs) = 3
    /\ runs[1].args.kind = "analysis"
    /\ runs[2].args.kind = "create" /\ runs[2].args.analysed /\ ~runs[2].reported
    /\ runs[3].args.kind = "using" /\ ~runs[3].reported
    /\ runs[3].used = TextFromAnalysis(runs[2].used)
    /\ runs[2].used = AnalysisOf("t2")

(***************************************************************************)
(* Claims about OutputActionManager                                        *)
(***************************************************************************)
\* the last call was the first set for a command with a pending action
FirstSetOfPending ==
    /\ last_op.op = "set"
    /\ Named(last_op.command) \in DOMAIN last_op.before.mcache
    /\ Named(last_op.command) \notin DOMAIN last_op.before.outputs

\* C24: after any sequence of set, set_action, send and capture calls no
\* command is both in the pending-action cache and in outputs, and the first
\* set for a command with a pending action binds that action to the
\* command's OutputAction and removes it from the pending cache.
C24_PendingActions ==
    /\ (DOMAIN mcache) \cap (DOMAIN outputs) = {}
    /\ FirstSetOfPending =>
          /\ outputs[Named(last_op.command)].action
                = last_op.before.mcache[Named(last_op.command)]
          /\ Named(last_op.command) \notin DOMAIN mcache

\* set_action("act", "cmd") while print is the global action, then set for cmd
C24_Witness ==
    /\ FirstSetOfPending
    /\ last_op.before.mcache["cmd"] = "act"
    /\ send_action = "print"
    /\ outputs["cmd"].action = "act"

\* the last call was send for a command without an output
SendUnregistered ==
    /\ last_op.op = "send"
    /\ Named(last_op.command) \notin DOMAIN last_op.before.outputs

\* C25: send(command, generator) for a command without an output registers
\* one, runs it and stores what it produced in its cache without an error;
\* send without a generator for such a command raises KeyError and leaves
\* outputs and the pending cache as they were.
C25_SendUnregistered ==
    SendUnregistered =>
        IF last_op.generator # NoGenerator
        THEN /\ last_op.exc = ""
             /\ Named(last_op.command) \in DOMAIN outputs
             /\ outputs[Named(last_op.command)].cache
                   = Handle(OutputAction(send_action, last_op.generator))
        ELSE /\ last_op.exc = "KeyError"
             /\ outputs = last_op.before.outputs
             /\ mcache = last_op.before.mcache

\* C26: when a `with capture(command)` block has ended, normally or by an
\* exception, the command's output cache is empty; capture for a command
\* without an output raises KeyError before the block runs.
C26_CaptureClears ==
    /\ last_op.op \in {"capture_done", "capture_raised"}
          => outputs[last_op.command].cache = EmptyDict
    /\ (last_op.op = "capture" /\ Named(last_op.command) \notin DOMAIN outputs)
          => (last_op.exc = "KeyError" /\ ~capturing.active)

(***************************************************************************)
(* Claims about Commands                                                   *)
(***************************************************************************)
\* the commands of a registry in its order
Registered(reg) == [i \in DOMAIN reg |-> reg[i].alc]

\* the first item of the registry that matched and was registered to block,
\* the length of the registry when there is none
StopAt(reg, matching) ==
    IF \E i \in DOMAIN reg : reg[i].alc \in matching /\ reg[i].block
    THEN CHOOSE i \in DOMAIN reg :
            /\ reg[i].alc \in matching /\ reg[i].block
            /\ \A j \in 1..(i - 1) : ~(reg[j].alc \in matching /\ reg[j].block)
    ELSE Len(reg)

\* C27: broadcast parses the registered commands in registration order; the
\* returned map has one entry for each command that matched up to and
\* including the first matched command registered with block=true, and no
\* command registered after that one is parsed or executed.
C27_BroadcastOrder ==
    bcast.done =>
        LET reg == bcast.executors
            stop == StopAt(reg, bcast.matching)
        IN  /\ bcast.parsed = SubSeq(Registered(reg), 1, stop)
            /\ DOMAIN bcast.data
                  = {Path(reg[i].alc) : i \in {j \in 1..stop : reg[j].alc \in bcast.matching}}
            /\ \A i \in 1..stop :
                  reg[i].alc \in bcast.matching
                      => bcast.data[Path(reg[i].alc)] = Result(reg[i].func, reg[i].alc)
            /\ \A i \in DOMAIN reg :
                  i > stop => \A k \in DOMAIN bcast.executed : bcast.executed[k] # reg[i].alc

\* three commands, the first matched without blocking, the second matched
\* and blocking, the third matching too but never reached
C27_Witness ==
    /\ bcast.done
    /\ Len(bcast.executors) = 3
    /\ bcast.matching = Alcs
    /\ ~bcast.executors[1].block
    /\ bcast.executors[2].block
    /\ Len(bcast.parsed) = 2
    /\ bcast.executors[3].alc \notin DOMAIN bcast.data

(***************************************************************************)
(* Claims about AlconnaNodeVisitor                                         *)
(***************************************************************************)
RECURSIVE NodesBefore(_)
\* the number of nodes the options before option k of the command make
NodesBefore(k) ==
    IF k <= 1 THEN 0
    ELSE NodesBefore(k - 1) + 1 + Len(alconna.options[k - 1].options)

\* the id of the node built from option k of the command
NodeIdOfTop(k) == 1 + NodesBefore(k)

Occurs(list, x) == \E i \in DOMAIN list : list[i] = x

\* the qualified name of node i, read off the node tree
QualifiedName(i) ==
    IF i = 0 THEN <<alconna.name>>
    ELSE IF Occurs(node_map[0].sub_nodes, i)
    THEN <<node_map[i].type, Lstrip(node_map[i].name)>>
    ELSE LET p == CHOOSE q \in DOMAIN node_map : Occurs(node_map[q].sub_nodes, i)
         IN  <<"subcommand", Lstrip(node_map[p].name), Lstrip(node_map[i].name)>>

\* the number of places node i has in the sub_nodes lists
PlacesOf(i) ==
    Cardinality({<<p, k>> \in (DOMAIN node_map) \X (1..Len(name_list)) :
                    k \in DOMAIN node_map[p].sub_nodes /\ node_map[p].sub_nodes[k] = i})

\* C29: after AlconnaNodeVisitor is constructed without error name_list and
\* node_map are aligned, every non-root node id is in exactly one sub_nodes
\* list, and require("option.x"), require("subcommand.s") and
\* require("subcommand.s.x") return the node built from the option or
\* subcommand declared under that name.
C29_VisitorTree ==
    vpc = "built" =>
        /\ DOMAIN node_map = 0..(Len(name_list) - 1)
        /\ \A i \in DOMAIN node_map : name_list[i + 1] = QName(QualifiedName(i))
        /\ \A i \in (DOMAIN node_map) \ {0} : PlacesOf(i) = 1
        /\ (vres.done /\ vres.exc = "") =>
              \A k \in DOMAIN alconna.options :
                  LET n == alconna.options[k]
                  IN  /\ vres.path = <<n.type, Lstrip(n.name)>>
                            => vres.node = NodeIdOfTop(k)
                      /\ \A j \in DOMAIN n.options :
                            vres.path = <<"subcommand", Lstrip(n.name), Lstrip(n.options[j].name)>>
                                => vres.node = NodeIdOfTop(k) + j

(***************************************************************************)
(* Claims about AlconnaMounter                                             *)
(***************************************************************************)
\* C30: AlconnaMounter.parse(message) returns the Arparma Alconna.parse makes
\* of the message after _parse_action: of the message _parse_action returned
\* when it returned one, of the original message otherwise.
C30_MounterParse ==
    mparse.done =>
        mparse.returned = ArparmaOf(mounter, Preprocessed(mounter, mparse.message))

====
